---- MODULE Spec2Model ----
(***************************************************************************)
(* Model of the workbook-to-Terraform pipeline.                            *)
(*                                                                         *)
(*   comprehensive_excel_extractor.py  table and key-value inference       *)
(*   data_accessor.py                  keyword lookups, reference          *)
(*                                     resolution, record synthesis        *)
(*   config.py                         normalize_resource_name             *)
(*   enhanced_terraform_generator.py   flat emitter                        *)
(*   enhanced_terraform_generator_v2.py modular emitter                    *)
(*                                                                         *)
(* Text is a sequence of one-character strings, so that trimming, case     *)
(* folding, substring search and truncation are computed and not assumed.  *)
(* A Python dict is a sequence of <<key, value>> pairs in insertion order. *)
(***************************************************************************)
EXTENDS Integers, Sequences, FiniteSets, TLC

VARIABLES
    pc,             \* position of the running scenario
    df,             \* the sheet's DataFrame: a sequence of rows of cells
    sheet_data,     \* the sheet record built by _extract_sheet_data
    sheets,         \* the 'sheets' entry of the Workbook Model, as the accessor loads it
    query,          \* arguments of the last accessor call
    result,         \* what the last accessor call returned
    terraform_data, \* what get_terraform_ready_data returned
    mode,           \* which generator renders: "flat" or "modular"
    clock,          \* the wall clock, in seconds
    emit,           \* progress of the current generate_terraform_files call
    output_dir,     \* the files of the output directory: path -> content
    generated_files,\* the dict the call is filling: artifact name -> path
    bundles,        \* what each finished call returned, with the files' content
    excel_files,    \* the workbooks the pipeline run discovered
    current,        \* the workbook the run is processing: index in excel_files
    json_files,     \* the JSON model files on disk: workbook name -> sheets
    processed_files,\* the workbooks the run has processed
    terraform_dirs, \* the directory named for each workbook, <<>> before it is
    results,        \* the results dict of the pipeline run
    args,           \* the command line of main()
    saved_results,  \* the results each _save_results call was given
    notifications,  \* results['success'] of each _send_notifications call
    exit_code       \* what main() returned, -1 before it returns

pipeline_vars == <<excel_files, current, json_files, processed_files, terraform_dirs, results,
                   args, saved_results, notifications, exit_code>>

emit_vars == <<mode, clock, emit, output_dir, generated_files, bundles, pipeline_vars>>

vars == <<pc, df, sheet_data, sheets, query, result, terraform_data,
          mode, clock, emit, output_dir, generated_files, bundles,
          excel_files, current, json_files, processed_files, terraform_dirs, results,
          args, saved_results, notifications, exit_code>>

(***************************************************************************)
(* Text primitives (Python str methods).                                   *)
(***************************************************************************)

\* A missing cell (pandas NaN): pd.notna() is false for it.
NaN == <<"<NaN>">>

\* Python values that need not be text are tagged: None, a str, an int
\* (val holds str(value)), and a raised exception.
PyNone == [kind |-> "none", val |-> <<>>]

PyText(s) == [kind |-> "str", val |-> s]

PyInt(digits) == [kind |-> "int", val |-> digits]

PyRaise == [kind |-> "raise", val |-> <<>>]

IsSpace(c) == c \in {" ", "\t", "\n"}

UpperLetters == <<"A","B","C","D","E","F","G","H","I","J","K","L","M",
                  "N","O","P","Q","R","S","T","U","V","W","X","Y","Z">>

LowerLetters == <<"a","b","c","d","e","f","g","h","i","j","k","l","m",
                  "n","o","p","q","r","s","t","u","v","w","x","y","z">>

Digits == <<"0","1","2","3","4","5","6","7","8","9">>

Range(s) == {s[i] : i \in DOMAIN s}

LowerChar(c) ==
    IF c \in Range(UpperLetters)
    THEN LowerLetters[CHOOSE i \in DOMAIN UpperLetters : UpperLetters[i] = c]
    ELSE c

\* str.lower()
Lower(s) == [i \in DOMAIN s |-> LowerChar(s[i])]

RECURSIVE LStrip(_)
LStrip(s) == IF s # <<>> /\ IsSpace(Head(s)) THEN LStrip(Tail(s)) ELSE s

RECURSIVE RStrip(_)
RStrip(s) ==
    IF s # <<>> /\ IsSpace(s[Len(s)]) THEN RStrip(SubSeq(s, 1, Len(s) - 1)) ELSE s

\* str.strip()
Strip(s) == RStrip(LStrip(s))

\* str.replace(c, '') for a one-character c
RemoveChar(s, c) == SelectSeq(s, LAMBDA x : x # c)

\* str.replace(c, d) for one-character c and d
ReplaceChar(s, c, d) == [i \in DOMAIN s |-> IF s[i] = c THEN d ELSE s[i]]

\* sub in s
Contains(sub, s) ==
    \E i \in 0..(Len(s) - Len(sub)) : SubSeq(s, i + 1, i + Len(sub)) = sub

\* s.startswith(p)
StartsWith(s, p) == Len(s) >= Len(p) /\ SubSeq(s, 1, Len(p)) = p

\* str(n) for a natural number n
RECURSIVE NatToText(_)
NatToText(n) ==
    IF n < 10 THEN <<Digits[n + 1]>>
    ELSE NatToText(n \div 10) \o <<Digits[(n % 10) + 1]>>

(***************************************************************************)
(* Python dict as an insertion-ordered sequence of <<key, value>>.         *)
(***************************************************************************)

DictKeys(d) == [i \in DOMAIN d |-> d[i][1]]

DictHas(d, k) == \E i \in DOMAIN d : d[i][1] = k

DictGet(d, k, default) ==
    IF DictHas(d, k) THEN d[CHOOSE i \in DOMAIN d : d[i][1] = k][2] ELSE default

\* d[k] = v: a new key is appended, an existing key keeps its position
DictPut(d, k, v) ==
    IF DictHas(d, k)
    THEN [i \in DOMAIN d |-> IF d[i][1] = k THEN <<k, v>> ELSE d[i]]
    ELSE Append(d, <<k, v>>)

Min(a, b) == IF a < b THEN a ELSE b

(***************************************************************************)
(* comprehensive_excel_extractor.py: _extract_tables                       *)
(***************************************************************************)

\* rows examined as candidate headers
HeaderScanRows == 20

\* rows examined below a header (range(row_idx + 1, row_idx + 100))
TableScanRows == 100

\* cells a row needs to be a candidate header, and headers a table needs
MinHeaders == 3

\* pd.notna(val) and str(val).strip()
Populated(val) == val # NaN /\ Strip(val) # <<>>

\* sum(1 for val in row if pd.notna(val) and str(val).strip())
NonEmptyCount(row) == Cardinality({i \in DOMAIN row : Populated(row[i])})

IsCandidateHeaderLoose(row) == NonEmptyCount(row) >= MinHeaders - 1

IsCandidateHeader(row) == NonEmptyCount(row) >= MinHeaders

\* headers of a candidate row; col_idx is 0-based
HeaderAt(row, col_idx) ==
    IF Populated(row[col_idx + 1])
    THEN Strip(row[col_idx + 1])
    ELSE <<"C", "o", "l", "u", "m", "n", "_">> \o NatToText(col_idx)

ExtractHeaders(row) == [i \in DOMAIN row |-> HeaderAt(row, i - 1)]

\* row_data of one data row: populated cells stored under their header
RECURSIVE RowDataFrom(_, _, _, _)
RowDataFrom(headers, data_row, i, acc) ==
    IF i > Len(headers) THEN acc
    ELSE IF i <= Len(data_row) /\ Populated(data_row[i])
         THEN RowDataFrom(headers, data_row, i + 1,
                          DictPut(acc, headers[i], Strip(data_row[i])))
         ELSE RowDataFrom(headers, data_row, i + 1, acc)

RowData(headers, data_row) == RowDataFrom(headers, data_row, 1, <<>>)

\* The data-row loop with "continue" in place of "break": empty rows skipped.
DataRowsSkipping(rows, headers, data_idx, stop) ==
    SelectSeq([k \in 1..(IF stop > data_idx THEN stop - data_idx ELSE 0) |->
                   RowData(headers, rows[data_idx + k])],
              LAMBDA row_data : row_data # <<>>)

\* for data_idx in range(row_idx + 1, stop): row_data of each row, up to the
\* first row that leaves has_data false (has_data is true exactly when
\* row_data received an entry); the loop is unrolled as "rows before the
\* first empty one".
DataRows(rows, headers, data_idx, stop) ==
    LET empties == {i \in data_idx..(stop - 1) : RowData(headers, rows[i + 1]) = <<>>}
        last    == IF empties = {} THEN stop
                   ELSE CHOOSE i \in empties : \A j \in empties : i <= j
    IN  [k \in 1..(IF last > data_idx THEN last - data_idx ELSE 0) |->
            RowData(headers, rows[data_idx + k])]

\* the table found under the header at row_idx (0-based), or none
TableAt(rows, row_idx) ==
    LET headers   == ExtractHeaders(rows[row_idx + 1])
        data_rows == DataRows(rows, headers, row_idx + 1,
                              Min(row_idx + TableScanRows, Len(rows)))
    IN  IF data_rows # <<>> /\ Len(headers) >= MinHeaders
        THEN << [header_row_index |-> row_idx,
                 headers          |-> headers,
                 data             |-> data_rows,
                 row_count        |-> Len(data_rows)] >>
        ELSE <<>>

RECURSIVE TablesFrom(_, _)
TablesFrom(rows, row_idx) ==
    IF row_idx >= Min(HeaderScanRows, Len(rows)) THEN <<>>
    ELSE (IF IsCandidateHeader(rows[row_idx + 1]) THEN TableAt(rows, row_idx) ELSE <<>>)
         \o TablesFrom(rows, row_idx + 1)

\* _extract_tables(df, sheet_data): the value left in sheet_data['tables']
ExtractTables(rows) == IF rows = <<>> THEN <<>> ELSE TablesFrom(rows, 0)

(***************************************************************************)
(* comprehensive_excel_extractor.py: _extract_key_value_pairs              *)
(***************************************************************************)

\* the tokens the key-value extraction rejects (compared lower-cased)
KeyValueRejects == { <<"n", "a", "n">>, <<"n", "o", "n", "e">>, <<>> }

\* str(cell).strip() if pd.notna(cell) else ""
CellText(cell) == IF cell # NaN THEN Strip(cell) ELSE <<>>

\* key.replace(':', '').strip()
KeyClean(cell) == Strip(RemoveChar(CellText(cell), ":"))

AcceptsPair(row) ==
    LET key_clean == KeyClean(row[1])
        value     == CellText(row[2])
    IN  /\ key_clean # <<>>
        /\ value # <<>>
        /\ Lower(key_clean) \notin KeyValueRejects
        /\ Lower(value) \notin KeyValueRejects

\* The i-th smallest member of a finite set of integers, as a sequence
Ascending(S) ==
    [k \in 1..Cardinality(S) |->
        CHOOSE i \in S : Cardinality({j \in S : j < i}) = k - 1]

\* key_value_pairs[key_clean] = value for every accepted row, top to bottom:
\* a key stands where its first accepted row put it and holds the value of
\* its last accepted row.
KeyValuePairsOf(rows) ==
    LET accepted == {i \in DOMAIN rows : AcceptsPair(rows[i])}
        key(i)   == KeyClean(rows[i][1])
        firsts   == {i \in accepted : \A j \in accepted : j < i => key(j) # key(i)}
        last(i)  == CHOOSE j \in accepted :
                       /\ key(j) = key(i)
                       /\ \A m \in accepted : key(m) = key(i) => m <= j
        order    == Ascending(firsts)
    IN  [k \in DOMAIN order |-> <<key(order[k]), CellText(rows[last(order[k])][2])>>]

\* _extract_key_value_pairs(df, sheet_data): the value left in
\* sheet_data['key_value_pairs'] (the initial {} when df has one column)
ExtractKeyValuePairs(rows) ==
    IF rows = <<>> \/ Len(rows[1]) < 2 THEN <<>>
    ELSE KeyValuePairsOf(rows)

(***************************************************************************)
(* data_accessor.py: find_key_by_keywords                                  *)
(***************************************************************************)

\* any(keyword.lower() in key.lower() for keyword in keywords)
AnyKeywordIn(keywords, text) ==
    \E j \in DOMAIN keywords : Contains(Lower(keywords[j]), Lower(text))

\* first key of key_value_pairs matching a keyword, else None
FindKeyByKeywords(key_value_pairs, keywords) ==
    LET hits == {i \in DOMAIN key_value_pairs :
                    AnyKeywordIn(keywords, key_value_pairs[i][1])}
    IN  IF hits = {} THEN PyNone
        ELSE PyText(key_value_pairs[CHOOSE i \in hits : \A j \in hits : i <= j][1])

(***************************************************************************)
(* data_accessor.py: _extract_actual_values_from_tables                    *)
(***************************************************************************)

\* skip_values: headers, placeholders and option labels, compared verbatim
SkipValues == {
    <<"V", "a", "l", "u", "e">>, <<"E", "x", "i", "s", "t", "i", "n", "g">>, <<"V", "a", "l", "i", "d", "a", "t", "i", "o", "n">>, <<"T", "e", "r", "r", "a", "f", "o", "r", "m", " ", "V", "a", "r", "i", "a", "b", "l", "e">>, <<"S", "N", "O", "W", " ", "f", "o", "r", "m">>,
    <<"U", "s", "e", "r">>, <<"E", "A">>, <<"C", "M", "D", "B">>, <<"C", "l", "o", "u", "d", " ", "E", "n", "g", "i", "n", "e", "e", "r", "i", "n", "g">>, <<"A", "z", "u", "r", "e", " ", "C", "l", "i", "e", "n", "t", " ", "M", "a", "n", "a", "g", "e", "d">>,
    <<"A", "z", "u", "r", "e", " ", "C", "M", "S", " ", "M", "a", "n", "a", "g", "e", "d">>, <<"O", "n", "P", "r", "e", "m">>, <<"A", "W", "S", " ", "C", "l", "i", "e", "n", "t", " ", "M", "a", "n", "a", "g", "e", "d">>, <<"Y", "E", "S">>, <<"N", "O">>,
    <<"A", "S", "R">>, <<"G", "R", "S", " ", "B", "a", "c", "k", "u", "p", "/", "R", "e", "s", "t", "o", "r", "e">>, <<"W", "a", "r", "m", "/", "S", "t", "a", "n", "d", "b", "y">>, <<"C", "o", "l", "d", " ", "R", "e", "b", "u", "i", "l", "d">>,
    <<"U", "s", "e", "r", "/", "C", "M", "D", "B">>, <<"C", "M", "D", "B", " ", "A", "P", "P", " ", "N", "A", "M", "E">>, <<"S", "N", "O", "W", " ", "t", "e", "a", "m", " ", "a", "f", "t", "e", "r", " ", "r", "e", "q", "u", "e", "s", "t", " ", "i", "s", " ", "c", "o", "m", "p", "l", "e", "t", "e", "?">>,
    <<"U", "s", "e", "r", "/", "E", "A">>, <<"D", "E", "V">>, <<"U", "A", "T">>, <<"Q", "A">>, <<"P", "R", "O", "D">>, <<"D", "R">>, <<"P", "l", "a", "t", "i", "n", "u", "m">>, <<"G", "o", "l", "d">>,
    <<"S", "i", "l", "v", "e", "r">>, <<"B", "r", "o", "n", "z", "e">>, <<"I", "r", "o", "n">>, <<"C", "M", "D", "B", "?">>, <<"M", "U", "S", "T", " ", "B", "E", " ", "A", " ", "N", "U", "M", "B", "E", "R">>,
    <<"C", "o", "m", "m", "e", "r", "c", "i", "a", "l">>, <<"C", "o", "n", "s", "u", "m", "e", "r", " ", "R", "e", "l", "a", "t", "e", "d">>, <<"C", "o", "r", "p", "o", "r", "a", "t", "e">>, <<"C", "o", "r", "p", "o", "r", "a", "t", "e", " ", "S", "u", "p", "p", "o", "r", "t">>,
    <<"O", "v", "e", "r", "v", "i", "e", "w">> }

\* value_column_index used for the Resources sheet
ResourcesValueColumn == 1

\* the entry of self.sheets under a name; a sheet record, or the message
\* string when sheets is {'error': str(e)}
NoSheetEntry == [kind |-> "sheet", error |-> FALSE, tables |-> <<>>, key_value_pairs |-> <<>>]

SheetsGet(all_sheets, sheet_name) == DictGet(all_sheets, sheet_name, NoSheetEntry)

\* the test applied to (field_name, field_value) of a table row
KeepsActualValue(field_name, field_value) ==
    /\ field_name # <<>>
    /\ field_value # <<>>
    /\ Strip(field_value) # <<>>
    /\ field_name \notin SkipValues
    /\ field_value \notin SkipValues
    /\ ~StartsWith(field_value, <<"w", "a", "b", ":">>)
    /\ ~StartsWith(field_value, <<"v", "m", "_", "l", "i", "s", "t">>)

\* all rows of all tables of a sheet, in table order then row order
RECURSIVE RowsOfTables(_)
RowsOfTables(tables) ==
    IF tables = <<>> THEN <<>> ELSE Head(tables).data \o RowsOfTables(Tail(tables))

\* the rows that assign actual_values[field_name] = field_value
RECURSIVE ActualValuesFrom(_, _, _)
ActualValuesFrom(rows, value_column_index, acc) ==
    IF rows = <<>> THEN acc
    ELSE LET row_items == Head(rows)
             next == IF /\ Len(row_items) >= value_column_index + 1
                        /\ KeepsActualValue(row_items[1][2],
                                            row_items[value_column_index + 1][2])
                     THEN DictPut(acc, row_items[1][2],
                                  row_items[value_column_index + 1][2])
                     ELSE acc
         IN  ActualValuesFrom(Tail(rows), value_column_index, next)

\* _extract_actual_values_from_tables(sheet_name, value_column_index), for a
\* sheet entry that is a sheet record
ExtractActualValues(all_sheets, sheet_name, value_column_index) ==
    ActualValuesFrom(RowsOfTables(SheetsGet(all_sheets, sheet_name).tables),
                     value_column_index, <<>>)

(***************************************************************************)
(* data_accessor.py: _resolve_variable_reference                           *)
(***************************************************************************)

\* str(value)
StrOf(value) == value.val

\* bool(value): None, '' and 0 are false
Truthy(value) ==
    CASE value.kind = "none" -> FALSE
      [] value.kind = "str"  -> value.val # <<>>
      [] value.kind = "int"  -> value.val # <<"0">>
      [] OTHER -> TRUE

\* s.replace(sub, rep): every occurrence, left to right, not overlapping
RECURSIVE ReplaceAll(_, _, _)
ReplaceAll(s, sub, rep) ==
    IF s = <<>> THEN <<>>
    ELSE IF StartsWith(s, sub)
         THEN rep \o ReplaceAll(SubSeq(s, Len(sub) + 1, Len(s)), sub, rep)
         ELSE <<Head(s)>> \o ReplaceAll(Tail(s), sub, rep)

\* s.split(): the maximal runs of non-space characters
RECURSIVE Words(_)
Words(s) ==
    LET t == LStrip(s)
    IN  IF t = <<>> THEN <<>>
        ELSE LET spaces == {i \in DOMAIN t : IsSpace(t[i])}
                 stop   == IF spaces = {} THEN Len(t) + 1
                           ELSE CHOOSE i \in spaces : \A j \in spaces : i <= j
             IN  <<SubSeq(t, 1, stop - 1)>> \o Words(SubSeq(t, stop, Len(t)))

\* the first of the indices at which a loop's test holds, or 0: the
\* iteration at which the loop returns or breaks
FirstIndex(hits) ==
    IF hits = {} THEN 0 ELSE CHOOSE i \in hits : \A j \in hits : i <= j

\* a table returned by a lookup
PyTable(table) == [kind |-> "table", val |-> table]

\* get_table_by_index(sheet_name, table_index); the sheet entry's .get raises when
\* the entry of self.sheets is a string
GetTableByIndex(all_sheets, sheet_name, table_index) ==
    LET entry == DictGet(all_sheets, sheet_name, [kind |-> "sheet", tables |-> <<>>])
    IN  IF entry.kind # "sheet" THEN PyRaise
        ELSE IF 0 <= table_index /\ table_index < Len(entry.tables)
        THEN PyTable(entry.tables[table_index + 1])
        ELSE PyNone

\* get_table_by_headers(sheet_name, header_keywords): the first table with a
\* header that holds a keyword, ignoring case
GetTableByHeaders(all_sheets, sheet_name, header_keywords) ==
    LET entry == DictGet(all_sheets, sheet_name, [kind |-> "sheet", tables |-> <<>>])
    IN  IF entry.kind # "sheet" THEN PyRaise
        ELSE LET hit == FirstIndex({t \in DOMAIN entry.tables :
                           \E h \in DOMAIN entry.tables[t].headers :
                              AnyKeywordIn(header_keywords, entry.tables[t].headers[h])})
             IN  IF hit = 0 THEN PyNone ELSE PyTable(entry.tables[hit])

\* get_column_by_keywords(sheet_name, keywords, table_index): the first
\* header of the table that holds a keyword, ignoring case
GetColumnByKeywords(all_sheets, sheet_name, keywords, table_index) ==
    LET table == GetTableByIndex(all_sheets, sheet_name, table_index)
    IN  IF table.kind # "table" THEN table
        ELSE LET hit == FirstIndex({h \in DOMAIN table.val.headers :
                                      AnyKeywordIn(keywords, table.val.headers[h])})
             IN  IF hit = 0 THEN PyNone ELSE PyText(table.val.headers[hit])

\* find_key_by_keywords(sheet_name, keywords) on the loaded model
FindKeyInSheet(all_sheets, sheet_name, keywords) ==
    LET entry == DictGet(all_sheets, sheet_name,
                              [kind |-> "sheet", key_value_pairs |-> <<>>])
    IN  IF entry.kind # "sheet" THEN PyRaise
        ELSE FindKeyByKeywords(entry.key_value_pairs, keywords)

\* _resolve_variable_reference(value, sheet_name)
ResolveVariableReference(all_sheets, value, sheet_name) ==
    IF ~Truthy(value) \/ ~StartsWith(StrOf(value), <<"w", "a", "b", ":">>) THEN value
    ELSE IF SheetsGet(all_sheets, sheet_name).kind # "sheet" THEN PyRaise
    ELSE
      LET actual_values == ExtractActualValues(all_sheets, sheet_name, ResourcesValueColumn)
          var_name == ReplaceAll(ReplaceAll(StrOf(value), <<"w", "a", "b", ":">>, <<>>), <<"-">>, <<" ">>)
          words    == Words(var_name)
          exact    == FirstIndex({i \in DOMAIN actual_values :
                         Contains(Lower(var_name), Lower(actual_values[i][1]))})
          partial  == FirstIndex({i \in DOMAIN actual_values :
                         \E w \in DOMAIN words :
                            Contains(words[w], Lower(actual_values[i][1]))})
      IN  IF exact # 0 THEN PyText(actual_values[exact][2])
          ELSE IF partial # 0 THEN PyText(actual_values[partial][2])
          ELSE value

(***************************************************************************)
(* data_accessor.py: get_terraform_ready_data (project info and machines)  *)
(***************************************************************************)

\* project_mapping, in the order its keys are tried
ProjectMapping == <<
    << <<"p", "r", "o", "j", "e", "c", "t", " ", "n", "a", "m", "e">>,            <<"p", "r", "o", "j", "e", "c", "t", "_", "n", "a", "m", "e">> >>,
    << <<"a", "b", "b", "r", "e", "v", "i", "a", "t", "e", "d", " ", "a", "p", "p", " ", "n", "a", "m", "e">>,    <<"a", "p", "p", "l", "i", "c", "a", "t", "i", "o", "n", "_", "n", "a", "m", "e">> >>,
    << <<"a", "p", "p", "l", "i", "c", "a", "t", "i", "o", "n", " ", "d", "e", "s", "c", "r", "i", "p", "t", "i", "o", "n">>, <<"a", "p", "p", "_", "d", "e", "s", "c", "r", "i", "p", "t", "i", "o", "n">> >>,
    << <<"c", "a", "g", " ", "a", "r", "c", "h", "i", "t", "e", "c", "t">>,           <<"a", "r", "c", "h", "i", "t", "e", "c", "t">> >>,
    << <<"s", "e", "r", "v", "e", "r", " ", "o", "w", "n", "e", "r">>,            <<"s", "e", "r", "v", "e", "r", "_", "o", "w", "n", "e", "r">> >>,
    << <<"a", "p", "p", "l", "i", "c", "a", "t", "i", "o", "n", " ", "o", "w", "n", "e", "r">>,       <<"a", "p", "p", "_", "o", "w", "n", "e", "r">> >>,
    << <<"b", "u", "s", "i", "n", "e", "s", "s", " ", "o", "w", "n", "e", "r">>,          <<"b", "u", "s", "i", "n", "e", "s", "s", "_", "o", "w", "n", "e", "r">> >>,
    << <<"s", "e", "r", "v", "i", "c", "e", " ", "n", "o", "w", " ", "t", "i", "c", "k", "e", "t">>,      <<"s", "e", "r", "v", "i", "c", "e", "_", "n", "o", "w", "_", "t", "i", "c", "k", "e", "t">> >>,
    << <<"a", "p", "p", "l", "i", "c", "a", "t", "i", "o", "n", " ", "n", "a", "m", "e">>,        <<"c", "m", "d", "b", "_", "a", "p", "p", "_", "n", "a", "m", "e">> >>,
    << <<"e", "n", "v", "i", "r", "o", "n", "m", "e", "n", "t">>,             <<"e", "n", "v", "i", "r", "o", "n", "m", "e", "n", "t">> >>,
    << <<"c", "h", "o", "o", "s", "e", " ", "n", "o", "d", "e", " ", "s", "i", "z", "e">>,        <<"v", "m", "_", "s", "i", "z", "e">> >>,
    << <<"o", "s", " ", "i", "m", "a", "g", "e">>,                <<"o", "s", "_", "i", "m", "a", "g", "e">> >>,
    << <<"o", "s">>,                      <<"o", "s", "_", "i", "m", "a", "g", "e">> >>,
    << <<"r", "o", "l", "e">>,                    <<"r", "o", "l", "e">> >>,
    << <<"p", "a", "t", "c", "h", " ", "o", "p", "t", "i", "n">>,             <<"p", "a", "t", "c", "h", "_", "o", "p", "t", "i", "n">> >> >>

\* for key, value in actual_values.items(): the first search_key found in
\* key.lower() names the project_info field that receives value
RECURSIVE ProjectInfoFrom(_, _)
ProjectInfoFrom(actual_values, acc) ==
    IF actual_values = <<>> THEN acc
    ELSE LET key   == Head(actual_values)[1]
             value == Head(actual_values)[2]
             m     == FirstIndex({i \in DOMAIN ProjectMapping :
                                    Contains(ProjectMapping[i][1], Lower(key))})
         IN  ProjectInfoFrom(Tail(actual_values),
                             IF m = 0 THEN acc
                             ELSE DictPut(acc, ProjectMapping[m][2], value))

VmKeywords == << <<"h", "o", "s", "t", "n", "a", "m", "e">>, <<"v", "m">>, <<"s", "e", "r", "v", "e", "r">>, <<"m", "a", "c", "h", "i", "n", "e">>, <<"i", "n", "s", "t", "a", "n", "c", "e">>,
                 <<"n", "o", "d", "e">>, <<"c", "o", "m", "p", "u", "t", "e">>, <<"s", "k", "u">>, <<"r", "e", "c", "o", "m", "m", "e", "n", "d", "e", "d", " ", "s", "k", "u">> >>

VmDataKeywords == << <<"o", "w", "n", "e", "r">>, <<"r", "e", "c", "o", "m", "m", "e", "n", "d", "e", "d">>, <<"o", "s">>, <<"d", "i", "s", "k">>, <<"i", "m", "a", "g", "e">> >>

\* columns a machine table needs, and fields a row needs to become a machine
MinVmColumns == 5

MinVmFields == 3

\* any(kw in text.lower() for kw in keywords): keywords are matched verbatim
AnyIn(keywords, text) ==
    \E j \in DOMAIN keywords : Contains(keywords[j], Lower(text))

\* (is_vm_table or has_vm_data) and has_vm_like_columns
IsVmTable(table) ==
    LET is_vm_table         == \E h \in DOMAIN table.headers :
                                  AnyIn(VmKeywords, table.headers[h])
        has_vm_like_columns == Len(table.headers) >= MinVmColumns /\ Len(table.data) > 0
        has_vm_data         == /\ table.data # <<>>
                               /\ \E e \in DOMAIN table.data[1] :
                                     AnyIn(VmDataKeywords, table.data[1][e][1])
    IN  (is_vm_table \/ has_vm_data) /\ has_vm_like_columns

\* the rows of a machine table kept as machines: the non-empty fields of a
\* row, when there are at least three
VmInstancesOfTable(table) ==
    LET fields(row) == SelectSeq(row, LAMBDA e : e[2] # <<>> /\ Strip(e[2]) # <<>>)
    IN  SelectSeq([k \in DOMAIN table.data |-> fields(table.data[k])],
                  LAMBDA vm_instance : Len(vm_instance) >= MinVmFields)

RECURSIVE VmInstancesOfTables(_)
VmInstancesOfTables(tables) ==
    IF tables = <<>> THEN <<>>
    ELSE (IF IsVmTable(Head(tables)) THEN VmInstancesOfTable(Head(tables)) ELSE <<>>)
         \o VmInstancesOfTables(Tail(tables))

(***************************************************************************)
(* data_accessor.py: _create_vm_instances_from_config                      *)
(***************************************************************************)

\* vm_count when no setting overrides it
DefaultVmCount == 2

IsDigit(c) == c \in Range(Digits)

DigitValue(c) == (CHOOSE i \in DOMAIN Digits : Digits[i] = c) - 1

RECURSIVE DigitsValue(_)
DigitsValue(ds) ==
    IF ds = <<>> THEN 0
    ELSE 10 * DigitsValue(SubSeq(ds, 1, Len(ds) - 1)) + DigitValue(ds[Len(ds)])

\* int(text): surrounding space, one sign, digits with single underscores
\* between them; [ok |-> FALSE] stands for ValueError
ParseInt(text) ==
    LET t      == Strip(text)
        signed == t # <<>> /\ Head(t) \in {"+", "-"}
        body   == IF signed THEN Tail(t) ELSE t
        wellformed ==
            /\ body # <<>>
            /\ IsDigit(body[1]) /\ IsDigit(body[Len(body)])
            /\ \A i \in DOMAIN body : IsDigit(body[i]) \/ body[i] = "_"
            /\ \A i \in 1..(Len(body) - 1) : ~(body[i] = "_" /\ body[i + 1] = "_")
        magnitude == DigitsValue(RemoveChar(body, "_"))
    IN  IF ~wellformed THEN [ok |-> FALSE, val |-> 0]
        ELSE [ok |-> TRUE,
              val |-> IF signed /\ Head(t) = "-" THEN 0 - magnitude ELSE magnitude]

\* a key that names a machine count
IsVmCountKey(key) ==
    /\ AnyIn(<< <<"v", "m">>, <<"s", "e", "r", "v", "e", "r">>, <<"i", "n", "s", "t", "a", "n", "c", "e">> >>, key)
    /\ AnyIn(<< <<"c", "o", "u", "n", "t">>, <<"n", "u", "m", "b", "e", "r">>, <<"t", "o", "t", "a", "l">> >>, key)

\* vm_count: the first count key whose value int() accepts, else the default
VmCount(actual_values) ==
    LET i == FirstIndex({k \in DOMAIN actual_values :
                            /\ IsVmCountKey(actual_values[k][1])
                            /\ ParseInt(actual_values[k][2]).ok})
    IN  IF i = 0 THEN DefaultVmCount ELSE ParseInt(actual_values[i][2]).val

\* f"{n:02d}" for a natural number n
TwoDigits(n) == IF n < 10 THEN <<"0">> \o NatToText(n) ELSE NatToText(n)

\* the machine record of index i (0-based)
ConfigVm(actual_values, i) ==
    LET get(k, default) == DictGet(actual_values, k, default)
        app_name == get(<<"A", "b", "b", "r", "e", "v", "i", "a", "t", "e", "d", " ", "A", "p", "p", " ", "N", "a", "m", "e">>, <<"m", "y", "a", "p", "p">>)
    IN  << << <<"H", "o", "s", "t", "n", "a", "m", "e">>, app_name \o <<"-">> \o TwoDigits(i + 1) >>,
           << <<"R", "e", "c", "o", "m", "m", "e", "n", "d", "e", "d", " ", "S", "K", "U">>, get(<<"C", "h", "o", "o", "s", "e", " ", "N", "o", "d", "e", " ", "S", "i", "z", "e">>, <<"S", "t", "a", "n", "d", "a", "r", "d", "_", "D", "2", "s", "_", "v", "3">>) >>,
           << <<"O", "S", " ", "I", "m", "a", "g", "e", "*">>, get(<<"O", "S">>, <<"U", "b", "u", "n", "t", "u", " ", "2", "2", ".", "0", "4", " ", "L", "T", "S">>) >>,
           << <<"E", "n", "v", "i", "r", "o", "n", "m", "e", "n", "t">>, get(<<"E", "n", "v", "i", "r", "o", "n", "m", "e", "n", "t">>, <<"d", "e", "v">>) >>,
           << <<"S", "e", "r", "v", "e", "r", " ", "O", "w", "n", "e", "r">>, get(<<"S", "e", "r", "v", "e", "r", " ", "O", "w", "n", "e", "r">>, <<"T", "B", "D">>) >>,
           << <<"A", "p", "p", "l", "i", "c", "a", "t", "i", "o", "n", " ", "O", "w", "n", "e", "r">>, get(<<"A", "p", "p", "l", "i", "c", "a", "t", "i", "o", "n", " ", "O", "w", "n", "e", "r">>, <<"T", "B", "D">>) >>,
           << <<"B", "u", "s", "i", "n", "e", "s", "s", " ", "O", "w", "n", "e", "r">>, get(<<"B", "u", "s", "i", "n", "e", "s", "s", " ", "O", "w", "n", "e", "r">>, <<"T", "B", "D">>) >>,
           << <<"P", "r", "o", "j", "e", "c", "t", " ", "N", "a", "m", "e">>, get(<<"P", "r", "o", "j", "e", "c", "t", " ", "N", "a", "m", "e">>, <<"p", "r", "o", "j", "e", "c", "t", "1">>) >>,
           << <<"A", "p", "p", "l", "i", "c", "a", "t", "i", "o", "n", " ", "N", "a", "m", "e">>, app_name >>,
           << <<"S", "e", "r", "v", "i", "c", "e", " ", "N", "o", "w", " ", "T", "i", "c", "k", "e", "t">>, get(<<"S", "e", "r", "v", "i", "c", "e", " ", "N", "o", "w", " ", "T", "i", "c", "k", "e", "t">>, <<"T", "B", "D">>) >>,
           << <<"R", "o", "l", "e">>, get(<<"R", "o", "l", "e">>, <<"w", "e", "b", "-", "s", "e", "r", "v", "e", "r">>) >>,
           << <<"P", "a", "t", "c", "h", " ", "O", "p", "t", "i", "n">>, get(<<"P", "a", "t", "c", "h", " ", "O", "p", "t", "i", "n">>, <<"y", "e", "s">>) >>,
           << <<"P", "r", "i", "v", "a", "t", "e", " ", "I", "P", " ", "A", "d", "d", "r", "e", "s", "s", " ", "A", "l", "l", "o", "c", "a", "t", "i", "o", "n">>,
              get(<<"P", "r", "i", "v", "a", "t", "e", " ", "I", "P", " ", "A", "d", "d", "r", "e", "s", "s", " ", "A", "l", "l", "o", "c", "a", "t", "i", "o", "n">>, <<"D", "y", "n", "a", "m", "i", "c">>) >>,
           << <<"O", "S", " ", "d", "i", "s", "k", " ", "s", "i", "z", "e">>, get(<<"O", "S", " ", "d", "i", "s", "k", " ", "s", "i", "z", "e">>, <<"3", "0">>) >>,
           << <<"O", "S", " ", "d", "i", "s", "k", " ", "t", "y", "p", "e">>, get(<<"O", "S", " ", "d", "i", "s", "k", " ", "t", "y", "p", "e">>, <<"P", "r", "e", "m", "i", "u", "m", "_", "L", "R", "S">>) >>,
           << <<"D", "a", "t", "a", " ", "d", "i", "s", "k", " ", "s", "i", "z", "e", "s">>, get(<<"D", "a", "t", "a", " ", "d", "i", "s", "k", " ", "s", "i", "z", "e", "s">>, <<>>) >>,
           << <<"D", "a", "t", "a", " ", "d", "i", "s", "k", " ", "t", "y", "p", "e">>, get(<<"D", "a", "t", "a", " ", "d", "i", "s", "k", " ", "t", "y", "p", "e">>, <<"P", "r", "e", "m", "i", "u", "m", "_", "L", "R", "S">>) >> >>

\* _create_vm_instances_from_config(actual_values): for i in range(vm_count)
CreateVmInstancesFromConfig(actual_values) ==
    LET vm_count == VmCount(actual_values)
    IN  [k \in 1..(IF vm_count > 0 THEN vm_count ELSE 0) |->
            ConfigVm(actual_values, k - 1)]

\* terraform_data['security_groups']: every non-empty row of every table of
\* the sheet NSG, in table order then row order
SecurityRules(all_sheets) ==
    SelectSeq(RowsOfTables(SheetsGet(all_sheets, "NSG").tables),
              LAMBDA rule : rule # <<>>)

\* a lookup self.sheets['Resources'] that raises when the sheet is missing
GetTerraformReadyDataRequiringResources(all_sheets) ==
    IF \/ \E i \in DOMAIN all_sheets : all_sheets[i][2].kind # "sheet"
       \/ ~DictHas(all_sheets, "Resources")
    THEN [raised |-> TRUE, project_info |-> <<>>, vm_instances |-> <<>>,
          security_groups |-> <<>>]
    ELSE [raised          |-> FALSE,
          project_info    |-> <<>>,
          vm_instances    |-> VmInstancesOfTables(SheetsGet(all_sheets, "Resources").tables),
          security_groups |-> SecurityRules(all_sheets)]

\* get_terraform_ready_data(): the entries read by the emitters.  The first
\* loop calls .get on every entry of self.sheets and raises on a string.
GetTerraformReadyData(all_sheets) ==
    IF \E i \in DOMAIN all_sheets : all_sheets[i][2].kind # "sheet"
    THEN [raised |-> TRUE, project_info |-> <<>>, vm_instances |-> <<>>,
          security_groups |-> <<>>]
    ELSE LET actual_values == ExtractActualValues(all_sheets, "Resources",
                                                  ResourcesValueColumn)
             vm_instances  == VmInstancesOfTables(SheetsGet(all_sheets, "Resources").tables)
         IN  [raised          |-> FALSE,
              project_info    |-> ProjectInfoFrom(actual_values, <<>>),
              vm_instances    |-> IF vm_instances # <<>> THEN vm_instances
                                  ELSE CreateVmInstancesFromConfig(actual_values),
              security_groups |-> SecurityRules(all_sheets)]

(***************************************************************************)
(* config.py: normalize_resource_name                                      *)
(***************************************************************************)

\* Azure resource name limit
MaxNameLength == 60

DefaultResourceName == <<"d", "e", "f", "a", "u", "l", "t", "-", "r", "e", "s", "o", "u", "r", "c", "e">>

\* re.sub(r'[^a-z0-9-]', '', s)
KeepNameChars(s) ==
    SelectSeq(s, LAMBDA c : c \in Range(LowerLetters) \cup Range(Digits) \cup {"-"})

\* re.sub(r'-+', '-', s)
RECURSIVE CollapseHyphens(_)
CollapseHyphens(s) ==
    IF Len(s) < 2 THEN s
    ELSE IF s[1] = "-" /\ s[2] = "-" THEN CollapseHyphens(Tail(s))
    ELSE <<s[1]>> \o CollapseHyphens(Tail(s))

\* s.rstrip('-')
RStripHyphens(s) ==
    LET kept == {i \in DOMAIN s : s[i] # "-"}
    IN  IF kept = {} THEN <<>>
        ELSE SubSeq(s, 1, CHOOSE i \in kept : \A j \in kept : j <= i)

\* s.strip('-')
StripHyphens(s) ==
    LET kept == {i \in DOMAIN s : s[i] # "-"}
    IN  IF kept = {} THEN <<>>
        ELSE SubSeq(s, CHOOSE i \in kept : \A j \in kept : i <= j,
                       CHOOSE i \in kept : \A j \in kept : j <= i)

\* normalized[:60], the cut left as it falls
TruncateOnly(normalized) == SubSeq(normalized, 1, MaxNameLength)

\* normalized[:60].rstrip('-')
TruncateName(normalized) == RStripHyphens(SubSeq(normalized, 1, MaxNameLength))

\* normalize_resource_name(name); name is a tagged Python value
NormalizeResourceName(name) ==
    IF ~Truthy(name) THEN DefaultResourceName
    ELSE LET lowered   == Strip(Lower(StrOf(name)))
             hyphened  == ReplaceChar(ReplaceChar(lowered, " ", "-"), "_", "-")
             collapsed == CollapseHyphens(KeepNameChars(hyphened))
             trimmed   == StripHyphens(collapsed)
         IN  IF trimmed = <<>> THEN DefaultResourceName
             ELSE IF Len(trimmed) > MaxNameLength THEN TruncateName(trimmed)
             ELSE trimmed

(***************************************************************************)
(* enhanced_terraform_generator.py, enhanced_terraform_generator_v2.py:    *)
(* generate_terraform_files                                                *)
(***************************************************************************)

\* An artifact: the key it gets in generated_files, the path components
\* joined to output_dir, and whether its text embeds datetime.now().
Artifact(key, parts, stamped) == [key |-> key, parts |-> parts, stamped |-> stamped]

\* the artifacts of the flat generator, in the order they are produced
FlatArtifacts == <<
    Artifact("main.tf",                       <<"main.tf">>,                       TRUE),
    Artifact("variables.tf",                  <<"variables.tf">>,                  TRUE),
    Artifact("terraform.tfvars",              <<"terraform.tfvars">>,              TRUE),
    Artifact("outputs.tf",                    <<"outputs.tf">>,                    TRUE),
    Artifact("provider.tf",                   <<"provider.tf">>,                   TRUE),
    Artifact("scripts/validate.sh",           <<"scripts", "validate.sh">>,        TRUE),
    Artifact("README.md",                     <<"README.md">>,                     TRUE),
    Artifact("docs/DEPLOYMENT_GUIDE.md",      <<"docs", "DEPLOYMENT_GUIDE.md">>,   TRUE),
    Artifact(".gitignore",                    <<".gitignore">>,                    FALSE),
    Artifact("terraform.auto.tfvars.example", <<"terraform.auto.tfvars.example">>, FALSE) >>

\* the artifacts of the modular generator: the module call, the r-*.tf
\* resource files, the configuration files, the script, the documentation
ModularArtifacts == <<
    Artifact("m-basevm.tf",         <<"m-basevm.tf">>,           FALSE),
    Artifact("r-rg.tf",             <<"r-rg.tf">>,               FALSE),
    Artifact("r-asg.tf",            <<"r-asg.tf">>,              FALSE),
    Artifact("r-snet.tf",           <<"r-snet.tf">>,             FALSE),
    Artifact("r-nsr.tf",            <<"r-nsr.tf">>,              FALSE),
    Artifact("r-kvlt.tf",           <<"r-kvlt.tf">>,             FALSE),
    Artifact("r-umid.tf",           <<"r-umid.tf">>,             FALSE),
    Artifact("r-dsk.tf",            <<"r-dsk.tf">>,              FALSE),
    Artifact("r-pe.tf",             <<"r-pe.tf">>,               FALSE),
    Artifact("variables.tf",        <<"variables.tf">>,          FALSE),
    Artifact("terraform.tfvars",    <<"terraform.tfvars">>,      FALSE),
    Artifact("outputs.tf",          <<"outputs.tf">>,            FALSE),
    Artifact("versions.tf",         <<"versions.tf">>,           FALSE),
    Artifact("data.tf",             <<"data.tf">>,               FALSE),
    Artifact("locals.tf",           <<"locals.tf">>,             FALSE),
    Artifact("scripts/validate.sh", <<"scripts", "validate.sh">>, TRUE),
    Artifact("README.md",           <<"README.md">>,             TRUE),
    Artifact(".gitignore",          <<".gitignore">>,            FALSE) >>

Artifacts(m) == IF m = "flat" THEN FlatArtifacts ELSE ModularArtifacts

OutputDir == "output_package"

\* os.path.join(output_dir) alone: the directory, whatever the artifact
ArtifactDir(artifact) == <<OutputDir>>

\* os.path.join(output_dir, *parts)
ArtifactPath(artifact) == <<OutputDir>> \o artifact.parts

\* the text of an artifact: a function of the artifact, of terraform_data
\* and, where the template embeds it, of datetime.now() to the second
Render(artifact, data, now) ==
    [artifact     |-> artifact.key,
     data         |-> data,
     generated_at |-> IF artifact.stamped THEN now ELSE -1]

(***************************************************************************)
(* enhanced_terraform_generator.py: variables.tf and terraform.tfvars, for *)
(* a workbook whose only sheet is Resources (build_environment,            *)
(* application_gateway, naming_patterns and security_groups are empty).    *)
(***************************************************************************)

\* a rendered value: a scalar text, or the fields of an object or map
Scalar(text) == [text |-> text, fields |-> <<>>]

Object(fields) == [text |-> <<>>, fields |-> fields]

NoValue == [text |-> <<"<none>">>, fields |-> <<>>]

\* variable "name" { type = ...  default = ... }: has_default tells whether
\* the block has a default line, open whether the type takes any field
\* name (string, number, list, map(string)), fields the field names of an
\* object type
Declaration(name, has_default, default, open, fields) ==
    [name |-> name, has_default |-> has_default, default |-> default,
     open |-> open, fields |-> fields]

Plain(name, default) == Declaration(name, TRUE, default, TRUE, {})

\* name = value
Assignment(name, value) == [name |-> name, value |-> value]

\* dict.get(key, default) on a machine record or on project_info
Get(d, key, default) == DictGet(d, key, default)

\* field in vm and vm[field]
HasValue(vm, field) == DictHas(vm, field) /\ DictGet(vm, field, <<>>) # <<>>

\* the first of name_fields the record holds a value under, or 0
FirstField(vm, name_fields) ==
    FirstIndex({i \in DOMAIN name_fields : HasValue(vm, name_fields[i])})

NameFields == << <<"H", "o", "s", "t", "n", "a", "m", "e">>, <<"h", "o", "s", "t", "n", "a", "m", "e">>, <<"V", "M", " ", "N", "a", "m", "e">>, <<"v", "m", "_", "n", "a", "m", "e">>,
                 <<"S", "e", "r", "v", "e", "r", " ", "N", "a", "m", "e">>, <<"s", "e", "r", "v", "e", "r", "_", "n", "a", "m", "e">>, <<"N", "a", "m", "e">>, <<"n", "a", "m", "e">> >>

\* f"{n:03d}" for a natural number n
ThreeDigits(n) ==
    IF n < 10 THEN <<"0", "0">> \o NatToText(n)
    ELSE IF n < 100 THEN <<"0">> \o NatToText(n)
    ELSE NatToText(n)

\* flat _extract_vm_name(vm, index)
FlatExtractVmName(vm, index) ==
    LET f == FirstField(vm, NameFields)
    IN  IF f # 0 THEN Strip(DictGet(vm, NameFields[f], <<>>))
        ELSE <<"v", "m", "-">> \o ThreeDigits(index + 1)

\* f'"{text}"'
Quoted(text) == <<"\"">> \o text \o <<"\"">>

\* ", ".join(items)
RECURSIVE JoinComma(_)
JoinComma(items) ==
    IF items = <<>> THEN <<>>
    ELSE IF Len(items) = 1 THEN items[1]
    ELSE items[1] \o <<",", " ">> \o JoinComma(Tail(items))

\* _generate_vm_names_list(): the names of the machines, quoted, in a list
VmNames(vm_instances) ==
    [k \in DOMAIN vm_instances |-> FlatExtractVmName(vm_instances[k], k - 1)]

GenerateVmNamesList(vm_instances) ==
    <<"[">> \o JoinComma([k \in DOMAIN vm_instances |->
                          Quoted(VmNames(vm_instances)[k])]) \o <<"]">>

NamingPatternDefaults == <<
    << "Resource_Group",           <<"r", "g", "-", "a", "p", "p", "n", "a", "m", "e", "-", "e", "n", "v">> >>,
    << "Subnet",                   <<"s", "n", "e", "t", "-", "a", "p", "p", "n", "a", "m", "e", "-", "e", "n", "v">> >>,
    << "Network_Security_Group",   <<"n", "s", "g", "-", "a", "p", "p", "n", "a", "m", "e", "-", "e", "n", "v">> >>,
    << "Application_Gateway",      <<"a", "p", "p", "g", "w", "-", "a", "p", "p", "n", "a", "m", "e", "-", "e", "n", "v">> >>,
    << "Azure_Container_Registry", <<"a", "c", "r", "-", "a", "p", "p", "n", "a", "m", "e", "-", "e", "n", "v">> >>,
    << "Storage_Account",          <<"s", "t", "-", "a", "p", "p", "n", "a", "m", "e", "-", "e", "n", "v">> >> >>

\* flat _generate_variables_tf(): the variable blocks, in file order
FlatVariablesTf(data) ==
    LET project_info == data.project_info
    IN << Plain("project_name",
                Scalar(Get(project_info, <<"p", "r", "o", "j", "e", "c", "t", "_", "n", "a", "m", "e">>, <<"d", "e", "f", "a", "u", "l", "t", "-", "p", "r", "o", "j", "e", "c", "t">>))),
          Plain("application_name",
                Scalar(Get(project_info, <<"a", "p", "p", "l", "i", "c", "a", "t", "i", "o", "n", "_", "n", "a", "m", "e">>, <<"d", "e", "f", "a", "u", "l", "t", "-", "a", "p", "p">>))),
          Plain("environment", Scalar(<<"d", "e", "v">>)),
          Plain("location", Scalar(<<"E", "a", "s", "t", " ", "U", "S">>)),
          Plain("subscription", Scalar(<<"s", "u", "b", "s", "c", "r", "i", "p", "t", "i", "o", "n", "1">>)),
          Plain("resource_group_key", Scalar(<<"r", "s", "g", "1">>)),
          Plain("app_owner", Scalar(Get(project_info, <<"a", "p", "p", "_", "o", "w", "n", "e", "r">>, <<"T", "B", "D">>))),
          Plain("business_owner", Scalar(Get(project_info, <<"b", "u", "s", "i", "n", "e", "s", "s", "_", "o", "w", "n", "e", "r">>, <<"T", "B", "D">>))),
          Plain("admin_username", Scalar(<<"a", "z", "u", "r", "e", "u", "s", "e", "r">>)),
          Plain("vm_count", Scalar(NatToText(Len(data.vm_instances)))),
          Plain("vm_names", Scalar(GenerateVmNamesList(data.vm_instances))),
          Plain("vm_size", Scalar(<<"S", "t", "a", "n", "d", "a", "r", "d", "_", "D", "2", "s", "_", "v", "3">>)),
          Plain("vm_os_disk_type", Scalar(<<"P", "r", "e", "m", "i", "u", "m", "_", "L", "R", "S">>)),
          Plain("vm_os_disk_size", Scalar(<<"3", "0">>)),
          Plain("vm_image_publisher", Scalar(<<"C", "a", "n", "o", "n", "i", "c", "a", "l">>)),
          Plain("vm_image_offer", Scalar(<<"0", "0", "0", "1", "-", "c", "o", "m", "-", "u", "b", "u", "n", "t", "u", "-", "s", "e", "r", "v", "e", "r", "-", "j", "a", "m", "m", "y">>)),
          Plain("vm_image_sku", Scalar(<<"2", "2", "_", "0", "4", "-", "l", "t", "s">>)),
          Plain("vm_image_version", Scalar(<<"l", "a", "t", "e", "s", "t">>)),
          Plain("vm_private_ip_allocation", Scalar(<<"D", "y", "n", "a", "m", "i", "c">>)),
          Plain("ssh_public_key", Scalar(<<"~", "/", ".", "s", "s", "h", "/", "i", "d", "_", "r", "s", "a", ".", "p", "u", "b">>)),
          Plain("vnet_address_space", Scalar(<<"[">> \o Quoted(<<"1", "0", ".", "0", ".", "0", ".", "0", "/", "1", "6">>) \o <<"]">>)),
          Plain("subnet_address_prefixes", Scalar(<<"[">> \o Quoted(<<"1", "0", ".", "0", ".", "1", ".", "0", "/", "2", "4">>) \o <<"]">>)),
          Plain("nsg_rules", Scalar(<<"[", "]">>)),
          Plain("app_gateway_sku", Scalar(<<"S", "t", "a", "n", "d", "a", "r", "d", "_", "v", "2">>)),
          Plain("app_gateway_capacity", Scalar(<<"2">>)),
          Plain("app_gateway_port", Scalar(<<"8", "0">>)),
          Plain("app_gateway_protocol", Scalar(<<"H", "t", "t", "p">>)),
          Plain("acr_sku", Scalar(<<"B", "a", "s", "i", "c">>)),
          Plain("storage_account_tier", Scalar(<<"S", "t", "a", "n", "d", "a", "r", "d">>)),
          Plain("storage_replication_type", Scalar(<<"L", "R", "S">>)),
          Plain("resource_naming_patterns", Object(NamingPatternDefaults)),
          Plain("tags", Object(<<
              << "Project",     Get(project_info, <<"p", "r", "o", "j", "e", "c", "t", "_", "n", "a", "m", "e">>, <<"d", "e", "f", "a", "u", "l", "t", "-", "p", "r", "o", "j", "e", "c", "t">>) >>,
              << "Application", Get(project_info, <<"a", "p", "p", "l", "i", "c", "a", "t", "i", "o", "n", "_", "n", "a", "m", "e">>, <<"d", "e", "f", "a", "u", "l", "t", "-", "a", "p", "p">>) >>,
              << "Environment", <<"d", "e", "v">> >>,
              << "Owner",       Get(project_info, <<"a", "p", "p", "_", "o", "w", "n", "e", "r">>, <<"T", "B", "D">>) >>,
              << "CreatedBy",   <<"E", "x", "c", "e", "l", "-", "t", "o", "-", "T", "e", "r", "r", "a", "f", "o", "r", "m", "-", "G", "e", "n", "e", "r", "a", "t", "o", "r">> >> >>)) >>

\* the values _generate_tfvars takes from the first machine when there is
\* one, and from project_info when there is none
FlatSetting(data, vm_field, project_field, constant) ==
    IF data.vm_instances # <<>>
    THEN Get(data.vm_instances[1], vm_field, constant)
    ELSE Get(data.project_info, project_field, constant)

\* flat _generate_tfvars(): the assignments, in file order
FlatTfvars(data) ==
    LET project_name     == FlatSetting(data, <<"P", "r", "o", "j", "e", "c", "t", " ", "N", "a", "m", "e">>, <<"p", "r", "o", "j", "e", "c", "t", "_", "n", "a", "m", "e">>,
                                        <<"d", "e", "f", "a", "u", "l", "t", "-", "p", "r", "o", "j", "e", "c", "t">>)
        application_name == FlatSetting(data, <<"A", "p", "p", "l", "i", "c", "a", "t", "i", "o", "n", " ", "N", "a", "m", "e">>, <<"a", "p", "p", "l", "i", "c", "a", "t", "i", "o", "n", "_", "n", "a", "m", "e">>,
                                        <<"d", "e", "f", "a", "u", "l", "t", "-", "a", "p", "p">>)
        environment      == FlatSetting(data, <<"E", "n", "v", "i", "r", "o", "n", "m", "e", "n", "t">>, <<"e", "n", "v", "i", "r", "o", "n", "m", "e", "n", "t">>, <<"d", "e", "v">>)
        vm_size          == FlatSetting(data, <<"R", "e", "c", "o", "m", "m", "e", "n", "d", "e", "d", " ", "S", "K", "U">>, <<"v", "m", "_", "s", "i", "z", "e">>,
                                        <<"S", "t", "a", "n", "d", "a", "r", "d", "_", "D", "2", "s", "_", "v", "3">>)
        app_owner        == FlatSetting(data, <<"A", "p", "p", "l", "i", "c", "a", "t", "i", "o", "n", " ", "O", "w", "n", "e", "r">>, <<"a", "p", "p", "_", "o", "w", "n", "e", "r">>, <<"T", "B", "D">>)
        business_owner   == FlatSetting(data, <<"B", "u", "s", "i", "n", "e", "s", "s", " ", "O", "w", "n", "e", "r">>, <<"b", "u", "s", "i", "n", "e", "s", "s", "_", "o", "w", "n", "e", "r">>, <<"T", "B", "D">>)
        service_now_ticket == FlatSetting(data, <<"S", "e", "r", "v", "i", "c", "e", " ", "N", "o", "w", " ", "T", "i", "c", "k", "e", "t">>,
                                          <<"s", "e", "r", "v", "i", "c", "e", "_", "n", "o", "w", "_", "t", "i", "c", "k", "e", "t">>, <<"T", "B", "D">>)
    IN << Assignment("project_name", Scalar(project_name)),
          Assignment("application_name", Scalar(application_name)),
          Assignment("environment", Scalar(environment)),
          Assignment("location", Scalar(<<"E", "a", "s", "t", " ", "U", "S">>)),
          Assignment("subscription", Scalar(<<"s", "u", "b", "s", "c", "r", "i", "p", "t", "i", "o", "n", "1">>)),
          Assignment("resource_group_key", Scalar(<<"r", "s", "g", "1">>)),
          Assignment("app_owner", Scalar(app_owner)),
          Assignment("business_owner", Scalar(business_owner)),
          Assignment("admin_username", Scalar(<<"a", "z", "u", "r", "e", "u", "s", "e", "r">>)),
          Assignment("vm_count", Scalar(NatToText(Len(data.vm_instances)))),
          Assignment("vm_names", Scalar(GenerateVmNamesList(data.vm_instances))),
          Assignment("vm_size", Scalar(vm_size)),
          Assignment("vm_os_disk_type", Scalar(<<"P", "r", "e", "m", "i", "u", "m", "_", "L", "R", "S">>)),
          Assignment("vm_os_disk_size", Scalar(<<"3", "0">>)),
          Assignment("vm_image_publisher", Scalar(<<"C", "a", "n", "o", "n", "i", "c", "a", "l">>)),
          Assignment("vm_image_offer", Scalar(<<"0", "0", "0", "1", "-", "c", "o", "m", "-", "u", "b", "u", "n", "t", "u", "-", "s", "e", "r", "v", "e", "r", "-", "j", "a", "m", "m", "y">>)),
          Assignment("vm_image_sku", Scalar(<<"2", "2", "_", "0", "4", "-", "l", "t", "s">>)),
          Assignment("vm_image_version", Scalar(<<"l", "a", "t", "e", "s", "t">>)),
          Assignment("vm_private_ip_allocation", Scalar(<<"D", "y", "n", "a", "m", "i", "c">>)),
          Assignment("ssh_public_key", Scalar(<<"~", "/", ".", "s", "s", "h", "/", "i", "d", "_", "r", "s", "a", ".", "p", "u", "b">>)),
          Assignment("vnet_address_space", Scalar(<<"[">> \o Quoted(<<"1", "0", ".", "0", ".", "0", ".", "0", "/", "1", "6">>) \o <<"]">>)),
          Assignment("subnet_address_prefixes",
                     Scalar(<<"[">> \o Quoted(<<"1", "0", ".", "0", ".", "1", ".", "0", "/", "2", "4">>) \o <<"]">>)),
          Assignment("app_gateway_sku", Scalar(<<"S", "t", "a", "n", "d", "a", "r", "d", "_", "v", "2">>)),
          Assignment("app_gateway_capacity", Scalar(<<"2">>)),
          Assignment("app_gateway_port", Scalar(<<"8", "0">>)),
          Assignment("app_gateway_protocol", Scalar(<<"H", "t", "t", "p">>)),
          Assignment("acr_sku", Scalar(<<"B", "a", "s", "i", "c">>)),
          Assignment("storage_account_tier", Scalar(<<"S", "t", "a", "n", "d", "a", "r", "d">>)),
          Assignment("storage_replication_type", Scalar(<<"L", "R", "S">>)),
          Assignment("resource_naming_patterns", Object(NamingPatternDefaults)),
          Assignment("tags", Object(<<
              << "Project",     project_name >>,
              << "Application", application_name >>,
              << "Environment", environment >>,
              << "Owner",       app_owner >>,
              << "CreatedBy",   <<"E", "x", "c", "e", "l", "-", "t", "o", "-", "T", "e", "r", "r", "a", "f", "o", "r", "m", "-", "G", "e", "n", "e", "r", "a", "t", "o", "r">> >>,
              << "ServiceNow",  service_now_ticket >> >>)) >>

(***************************************************************************)
(* enhanced_terraform_generator_v2.py: variables.tf and terraform.tfvars,  *)
(* for a workbook whose only sheet is Resources.                           *)
(***************************************************************************)

\* an object or map(object) written with these field names; the texts of
\* the fields are not kept
FieldsOnly(names) == Object([i \in DOMAIN names |-> <<names[i], <<>>>>])

\* the fields an object type declares
Typed(name, has_default, fields) == Declaration(name, has_default, NoValue, FALSE, fields)

VmListFields ==
    { "name", "size", "zone", "image_os", "image_urn", "source_image_id",
      "marketplace_image", "ip_allocation", "ip_address", "identity_type",
      "os_disk_name", "os_disk_size", "os_disk_type", "os_disk_tier",
      "data_disk_sizes", "data_disk_type", "data_disks", "snet_key", "asg_key", "tags" }

CommonTagsFields ==
    { "terraform", "shared-service-name", "app-name", "environment", "app-tier",
      "snow-item", "it-cost-center", "it-domain", "notes", "segment",
      "lineofbusiness", "department", "cost-center" }

\* v2 _generate_variables_tf(): the variable blocks, in file order
ModularVariablesTf(data) ==
    << Plain("spn", Scalar(<<"n", "u", "l", "l">>)),
       Plain("resource_group_name", Scalar(<<"n", "u", "l", "l">>)),
       Plain("location", Scalar(<<"W", "E", "S", "T", " ", "U", "S", " ", "3">>)),
       Typed("existing_application_security_groups", TRUE,
             { "name", "resource_group_name" }),
       Typed("application_security_groups", TRUE, { "name" }),
       Declaration("key_vault", TRUE,
                   Object(<< << "name", <<"n", "u", "l", "l">> >>,
                             << "sku_name", <<"s", "t", "a", "n", "d", "a", "r", "d">> >>,
                             << "soft_delete_retention_days", <<"9", "0">> >>,
                             << "public_network_access", <<"t", "r", "u", "e">> >>,
                             << "snet_key", <<"s", "n", "e", "t", "1">> >>,
                             << "key_name", <<"n", "u", "l", "l">> >> >>),
                   FALSE,
                   { "name", "sku_name", "soft_delete_retention_days",
                     "public_network_access", "snet_key", "key_name" }),
       Plain("user_assigned_identity_name", Scalar(<<"n", "u", "l", "l">>)),
       Plain("disk_encryption_set_name", Scalar(<<"n", "u", "l", "l">>)),
       Typed("existing_subnets", TRUE,
             { "name", "virtual_network_name", "resource_group_name" }),
       Typed("subnets", TRUE,
             { "resource_group_name", "virtual_network_name",
               "network_security_group_name", "network_security_group_id",
               "route_table_name", "route_table_id", "name", "prefixes",
               "service_endpoints" }),
       Typed("private_endpoints", TRUE,
             { "name", "subresource_names", "private_connection_resource_id",
               "is_manual_connection", "private_dns_zone_group_name",
               "private_dns_zone_ids", "snet_key", "asg_key" }),
       Typed("network_security_rules", TRUE,
             { "resource_group_name", "network_security_group_name", "rules" }),
       Plain("admin_username", Scalar(<<"c", "i", "s", "a", "d", "m", "i", "n">>)),
       Plain("admin_password", Scalar(<<"n", "u", "l", "l">>)),
       Typed("vm_list", TRUE, VmListFields),
       Typed("common_tags", FALSE, CommonTagsFields),
       Declaration("resource_specific_tags", TRUE,
                   Object(<< << "role", <<"N", "A">> >>,
                             << "patch-optin", <<"N", "A">> >> >>),
                   FALSE, { "role", "patch-optin" }) >>

\* project_name.lower().replace(' ', '-')
Slug(text) == ReplaceChar(Lower(text), " ", "-")

\* v2 _generate_tfvars(): the assignments, in file order
ModularTfvars(data) ==
    LET project_info == data.project_info
        project_name == Get(project_info, <<"p", "r", "o", "j", "e", "c", "t", "_", "n", "a", "m", "e">>, <<"d", "e", "f", "a", "u", "l", "t", "-", "p", "r", "o", "j", "e", "c", "t">>)
        app_name     == Get(project_info, <<"a", "p", "p", "l", "i", "c", "a", "t", "i", "o", "n", "_", "n", "a", "m", "e">>, <<"d", "e", "f", "a", "u", "l", "t", "-", "a", "p", "p">>)
        environment  == Get(project_info, <<"e", "n", "v", "i", "r", "o", "n", "m", "e", "n", "t">>, <<"D", "E", "V">>)
        suffix       == Slug(project_name) \o <<"-">> \o Lower(environment)
    IN << Assignment("spn", Scalar(<<"s", "p", "n", "-", "t", "e", "r", "r", "a", "f", "o", "r", "m", "-">> \o Slug(project_name))),
          Assignment("location", Scalar(<<"W", "E", "S", "T", " ", "U", "S", " ", "3">>)),
          Assignment("resource_group_name", Scalar(<<"r", "g", "-">> \o suffix)),
          Assignment("application_security_groups", FieldsOnly(<< "name" >>)),
          Assignment("disk_encryption_set_name", Scalar(<<"d", "s", "k", "-">> \o suffix)),
          Assignment("user_assigned_identity_name", Scalar(<<"u", "m", "i", "d", "-">> \o suffix)),
          Assignment("key_vault",
                     Object(<< << "name", <<"k", "v", "l", "t", "-">> \o suffix >>,
                               << "sku_name", <<"s", "t", "a", "n", "d", "a", "r", "d">> >>,
                               << "soft_delete_retention_days", <<"9", "0">> >>,
                               << "public_network_access", <<"t", "r", "u", "e">> >>,
                               << "snet_key", <<"s", "n", "e", "t", "1">> >>,
                               << "key_name", <<"k", "e", "y", "-">> \o suffix >> >>)),
          Assignment("subnets",
                     FieldsOnly(<< "resource_group_name", "virtual_network_name",
                                   "network_security_group_id", "route_table_id",
                                   "name", "prefixes", "service_endpoints" >>)),
          Assignment("private_endpoints",
                     FieldsOnly(<< "name", "subresource_names", "snet_key", "asg_key" >>)),
          Assignment("network_security_rules",
                     FieldsOnly(<< "resource_group_name", "network_security_group_name",
                                   "rules" >>)),
          Assignment("vm_list",
                     IF data.vm_instances = <<>> THEN Object(<<>>)
                     ELSE FieldsOnly(<< "name", "size", "zone", "image_os",
                                        "marketplace_image", "image_urn", "ip_allocation",
                                        "identity_type", "os_disk_size", "os_disk_type",
                                        "os_disk_tier", "data_disk_sizes", "data_disk_type",
                                        "snet_key", "asg_key", "tags" >>)),
          Assignment("common_tags",
                     Object(<< << "shared-service-name", <<"N", "A">> >>,
                               << "app-name", app_name >>,
                               << "environment", environment >>,
                               << "data-classification", <<"I", "n", "t", "e", "r", "n", "a", "l">> >>,
                               << "criticality", <<"4", "-", "V", "e", "r", "y", " ", "M", "i", "n", "o", "r", " ", "t", "o", " ", "O", "p", "e", "r", "a", "t", "i", "o", "n", "s">> >>,
                               << "app-tier", <<"B", "r", "o", "n", "z", "e">> >>,
                               << "snow-item", Get(project_info, <<"s", "e", "r", "v", "i", "c", "e", "_", "n", "o", "w", "_", "t", "i", "c", "k", "e", "t">>,
                                                   <<"R", "I", "T", "M", "0", "0", "0", "0", "0", "0">>) >>,
                               << "it-cost-center", <<"5", "5", "4", "1">> >>,
                               << "it-domain", <<"P", "l", "a", "t", "f", "o", "r", "m", " ", "E", "n", "g", "i", "n", "e", "e", "r", "i", "n", "g">> >>,
                               << "lineofbusiness", <<"A", "m", "e", "r", "i", "h", "o", "m", "e", " ", "M", "o", "r", "t", "g", "a", "g", "e">> >>,
                               << "department", <<"C", "l", "o", "u", "d", " ", "E", "n", "g", "i", "n", "e", "e", "r", "i", "n", "g">> >>,
                               << "cost-center", <<"6", "5", "0", "0">> >> >>)) >>

VariablesTf(m, data) == IF m = "flat" THEN FlatVariablesTf(data) ELSE ModularVariablesTf(data)

Tfvars(m, data) == IF m = "flat" THEN FlatTfvars(data) ELSE ModularTfvars(data)

(***************************************************************************)
(* Identifiers the generators derive from free text.                       *)
(***************************************************************************)

WordChars == Range(UpperLetters) \cup Range(LowerLetters) \cup Range(Digits) \cup {"_"}

\* re.sub(r'[^...]', rep, name) for the character class keep
SubstituteOutside(name, keep, rep) ==
    [i \in DOMAIN name |-> IF name[i] \in keep THEN name[i] ELSE rep]

\* flat _sanitize_resource_name(name)
FlatSanitizeResourceName(name) ==
    LET sanitized == SubstituteOutside(name, WordChars \cup {"-"}, "_")
    IN  IF sanitized # <<>>
           /\ sanitized[1] \notin Range(UpperLetters) \cup Range(LowerLetters)
        THEN <<"v", "m", "_">> \o sanitized
        ELSE sanitized

\* flat _generate_outputs_tf(): the three output names of machine i (0-based)
FlatOutputNames(vm, i) ==
    LET vm_name == Get(vm, <<"H", "o", "s", "t", "n", "a", "m", "e">>, <<"v", "m", "-">> \o NatToText(i + 1))
        stem    == ReplaceChar(vm_name, "-", "_")
    IN  { stem \o <<"_", "n", "a", "m", "e">>, stem \o <<"_", "i", "d">>, stem \o <<"_", "p", "r", "i", "v", "a", "t", "e", "_", "i", "p">> }

\* flat _generate_main_tf(): the identifier of the resource
\* "azurerm_linux_virtual_machine" declared for each machine, in order
FlatMainTfMachines(data) ==
    [k \in DOMAIN data.vm_instances |->
        FlatSanitizeResourceName(FlatExtractVmName(data.vm_instances[k], k - 1))]

\* flat _generate_outputs_tf(): the identifier in
\* azurerm_linux_virtual_machine.<identifier>.name of each machine's outputs
FlatOutputsTfMachines(data) ==
    [k \in DOMAIN data.vm_instances |->
        ReplaceChar(Get(data.vm_instances[k], <<"H", "o", "s", "t", "n", "a", "m", "e">>, <<"v", "m", "-">> \o NatToText(k)),
                    "-", "_")]

\* if rule.get('name') and rule.get('direction')
RuleRendered(rule) == HasValue(rule, <<"n", "a", "m", "e">>) /\ HasValue(rule, <<"d", "i", "r", "e", "c", "t", "i", "o", "n">>)

\* flat _generate_main_tf(): one azurerm_network_security_rule block for each
\* rule with a name and a direction; index is the i of var.nsg_rules[i],
\* the rule's position in security_groups counted from 0
NsgRuleBlocks(data) ==
    LET security_groups == data.security_groups
        positions == SelectSeq([k \in DOMAIN security_groups |-> k],
                               LAMBDA k : RuleRendered(security_groups[k]))
    IN  [b \in DOMAIN positions |->
            [rule_name |-> FlatSanitizeResourceName(
                               Get(security_groups[positions[b]], <<"n", "a", "m", "e">>,
                                   <<"r", "u", "l", "e", "_">> \o NatToText(positions[b] - 1))),
             index     |-> positions[b] - 1,
             rule      |-> security_groups[positions[b]]]]

\* the object rendered for the rule at position i (from 0) of security_groups
NsgRuleObject(rule, i) ==
    << << <<"n", "a", "m", "e">>,      Get(rule, <<"n", "a", "m", "e">>, <<"r", "u", "l", "e", "_">> \o NatToText(i)) >>,
       << <<"p", "r", "i", "o", "r", "i", "t", "y">>,  Get(rule, <<"p", "r", "i", "o", "r", "i", "t", "y">>, NatToText(100 + i * 10)) >>,
       << <<"d", "i", "r", "e", "c", "t", "i", "o", "n">>, Get(rule, <<"d", "i", "r", "e", "c", "t", "i", "o", "n">>, <<"I", "n", "b", "o", "u", "n", "d">>) >>,
       << <<"a", "c", "c", "e", "s", "s">>,    Get(rule, <<"a", "c", "c", "e", "s", "s">>, <<"A", "l", "l", "o", "w">>) >>,
       << <<"p", "r", "o", "t", "o", "c", "o", "l">>,  Get(rule, <<"p", "r", "o", "t", "o", "c", "o", "l">>, <<"T", "c", "p">>) >>,
       << <<"s", "o", "u", "r", "c", "e", "_", "p", "o", "r", "t", "_", "r", "a", "n", "g", "e">>,          Get(rule, <<"s", "o", "u", "r", "c", "e", "_", "p", "o", "r", "t", "_", "r", "a", "n", "g", "e">>, <<"*">>) >>,
       << <<"d", "e", "s", "t", "i", "n", "a", "t", "i", "o", "n", "_", "p", "o", "r", "t", "_", "r", "a", "n", "g", "e">>,     Get(rule, <<"d", "e", "s", "t", "i", "n", "a", "t", "i", "o", "n", "_", "p", "o", "r", "t", "_", "r", "a", "n", "g", "e">>, <<"*">>) >>,
       << <<"s", "o", "u", "r", "c", "e", "_", "a", "d", "d", "r", "e", "s", "s", "_", "p", "r", "e", "f", "i", "x">>,      Get(rule, <<"s", "o", "u", "r", "c", "e", "_", "a", "d", "d", "r", "e", "s", "s", "_", "p", "r", "e", "f", "i", "x">>, <<"*">>) >>,
       << <<"d", "e", "s", "t", "i", "n", "a", "t", "i", "o", "n", "_", "a", "d", "d", "r", "e", "s", "s", "_", "p", "r", "e", "f", "i", "x">>, Get(rule, <<"d", "e", "s", "t", "i", "n", "a", "t", "i", "o", "n", "_", "a", "d", "d", "r", "e", "s", "s", "_", "p", "r", "e", "f", "i", "x">>, <<"*">>) >> >>

\* flat _generate_nsg_rules_list(): the default of variable "nsg_rules" in
\* variables.tf, one object appended for each rule with a name and a direction
GenerateNsgRulesList(data) ==
    LET security_groups == data.security_groups
        positions == SelectSeq([k \in DOMAIN security_groups |-> k],
                               LAMBDA k : RuleRendered(security_groups[k]))
    IN  [b \in DOMAIN positions |->
            NsgRuleObject(security_groups[positions[b]], positions[b] - 1)]

\* v2 _extract_vm_name(vm, index)
ModularExtractVmName(vm, index, project_info) ==
    LET f == FirstIndex({i \in DOMAIN NameFields :
                           /\ HasValue(vm, NameFields[i])
                           /\ Strip(DictGet(vm, NameFields[i], <<>>)) # <<>>})
    IN  IF f # 0
        THEN SubstituteOutside(Strip(DictGet(vm, NameFields[f], <<>>)),
                               WordChars \cup {"-"}, "-")
        ELSE Get(project_info, <<"a", "p", "p", "l", "i", "c", "a", "t", "i", "o", "n", "_", "n", "a", "m", "e">>, <<"v", "m">>) \o <<"-">> \o TwoDigits(index + 1)

\* the identifiers placed in the files of a bundle: machine resource names
\* (main.tf), output names (outputs.tf), machine names (terraform.tfvars)
Identifiers(m, data) ==
    LET vms == data.vm_instances
    IN  IF m = "flat"
        THEN UNION { { FlatSanitizeResourceName(FlatExtractVmName(vms[k], k - 1)),
                       FlatExtractVmName(vms[k], k - 1) }
                     \cup FlatOutputNames(vms[k], k - 1) : k \in DOMAIN vms }
        ELSE { ModularExtractVmName(vms[k], k - 1, data.project_info) : k \in DOMAIN vms }

(***************************************************************************)
(* Sheets used as inputs of the extraction scenario.                       *)
(***************************************************************************)

\* longest grid enumerated row by row
MaxRows == 3

HeaderRow == << <<"H", "o", "s", "t", "n", "a", "m", "e">>, <<"S", "K", "U">>, <<"O", "S">>, <<"O", "w", "n", "e", "r">>, <<"R", "o", "l", "e">> >>

DataRow == << <<"w", "e", "b", "0", "1">>, <<"D", "2", "s">>, <<"L", "i", "n", "u", "x">>, <<"a", "l", "i", "c", "e">>, <<"w", "e", "b">> >>

GappedRow == << <<"d", "b", "0", "1">>, NaN, <<" ", "L", "4", "s", " ">>, <<"b", "o", "b">>, NaN >>

EmptyRow == << NaN, NaN, NaN, NaN, NaN >>

BlankRow == << <<" ">>, NaN, <<>>, <<"\t">>, NaN >>

SparseRow == << NaN, NaN, <<"x">>, NaN, NaN >>

ProjectRow == << <<"P", "r", "o", "j", "e", "c", "t", " ", "N", "a", "m", "e">>, <<"A", "t", "l", "a", "s">>, NaN, NaN, NaN >>

ValueRow == << <<"V", "a", "l", "u", "e">>, <<"i", "g", "n", "o", "r", "e", "d">>, NaN, NaN, NaN >>

ColonRow == << <<" ", "P", "r", "o", "j", "e", "c", "t", " ", "N", "a", "m", "e", ":", " ">>, <<" ", "B", "o", "r", "e", "a", "l", "i", "s", " ">>, NaN, NaN, NaN >>

RejectedRow == << <<"N", "a", "N", ":">>, <<"N", "o", "n", "e">>, <<"k", "e", "p", "t">>, NaN, NaN >>

RowPool == { HeaderRow, DataRow, GappedRow, EmptyRow, BlankRow, SparseRow,
             ProjectRow, ValueRow, ColonRow, RejectedRow }

RECURSIVE GridsOfLength(_)
GridsOfLength(n) ==
    IF n = 0 THEN { <<>> }
    ELSE { Append(g, r) : g \in GridsOfLength(n - 1), r \in RowPool }

Repeat(row, n) == [i \in 1..n |-> row]

\* header, one data row, one empty row, more data rows
BoundaryGrid == << HeaderRow, DataRow, EmptyRow, GappedRow, DataRow >>

\* the sheet of the find_key example
ProjectGrid == << ProjectRow, ValueRow >>

\* sheets that reach the header window and the row window of a table
TallGrids ==
    { Repeat(EmptyRow, HeaderScanRows - 1) \o << HeaderRow, DataRow >>,
      Repeat(EmptyRow, HeaderScanRows) \o << HeaderRow, DataRow >>,
      << HeaderRow >> \o Repeat(SparseRow, TableScanRows) }

\* a sheet of a single column
NarrowGrids == { << << <<"P", "r", "o", "j", "e", "c", "t", " ", "N", "a", "m", "e">> >>, << <<"A", "t", "l", "a", "s">> >> >> }

\* a header row that repeats a label, and one whose label is the placeholder
\* of the blank cell before it
RepeatedLabelRow == << <<"O", "w", "n", "e", "r">>, <<"S", "K", "U">>, <<" ", "O", "w", "n", "e", "r">>, <<"O", "S">>, <<"R", "o", "l", "e">> >>

PlaceholderLabelRow == << <<"H", "o", "s", "t", "n", "a", "m", "e">>, <<"S", "K", "U">>, <<"O", "S">>, NaN, <<"C", "o", "l", "u", "m", "n", "_", "3">> >>

LabelGrids == { << RepeatedLabelRow, DataRow >>, << PlaceholderLabelRow, DataRow >> }

Grids ==
    UNION { GridsOfLength(n) : n \in 1..MaxRows }
        \cup { BoundaryGrid, ProjectGrid } \cup TallGrids \cup NarrowGrids
        \cup LabelGrids

KeywordLists ==
    { << <<"p", "r", "o", "j", "e", "c", "t">> >>, << <<"V", "A", "L", "U", "E">> >>, << <<"z", "o", "n", "e">>, <<"n", "a", "m", "e">> >>, << <<"h", "o", "s", "t">> >>, <<>> }

(***************************************************************************)
(* Scenario: one sheet is extracted, then a key is looked up.              *)
(***************************************************************************)

NoSheet == [tables |-> <<>>, key_value_pairs |-> <<>>]

NoQuery == [op |-> "none", keywords |-> <<>>]

NoTerraformData ==
    [raised |-> FALSE, project_info |-> <<>>, vm_instances |-> <<>>,
     security_groups |-> <<>>]

NoContent == [artifact |-> "", data |-> NoTerraformData, generated_at |-> -1]

\* no generator has been called
\* summary before _generate_summary_report has run
NoSummary == [steps_completed |-> -1, duration_seconds |-> -1, success |-> FALSE,
              files_processed |-> -1]

\* results = {'success': False, 'end_time': None, 'duration_seconds': 0,
\* 'steps_completed': [], 'files_generated': [], 'errors': [], 'warnings': [],
\* 'summary': {}}; end_time None is -1
NoResults == [success |-> FALSE, steps_completed |-> <<>>, files_generated |-> <<>>,
              errors |-> <<>>, warnings |-> <<>>, summary |-> NoSummary,
              end_time |-> -1, duration_seconds |-> 0]

\* no pipeline is running
PipelineIdle ==
    /\ excel_files = <<>>
    /\ current = 0
    /\ json_files = <<>>
    /\ processed_files = <<>>
    /\ terraform_dirs = <<>>
    /\ results = NoResults
    /\ args = [dry_run |-> FALSE]
    /\ saved_results = <<>>
    /\ notifications = <<>>
    /\ exit_code = -1

EmitIdle ==
    /\ mode = "flat"
    /\ clock = 0
    /\ emit = [run |-> 0, rendered |-> 0, written |-> 0, status |-> "idle",
               content |-> NoContent]
    /\ output_dir = <<>>
    /\ generated_files = <<>>
    /\ bundles = <<>>
    /\ PipelineIdle

InitExtract ==
    /\ pc = "loaded"
    /\ df \in Grids
    /\ sheet_data = NoSheet
    /\ sheets = <<>>
    /\ query = NoQuery
    /\ result = PyNone
    /\ terraform_data = NoTerraformData
    /\ EmitIdle

\* _extract_sheet_data, for one non-empty sheet: tables, then key-value pairs
ExtractSheet ==
    /\ pc = "loaded"
    /\ sheet_data' = [tables          |-> ExtractTables(df),
                      key_value_pairs |-> ExtractKeyValuePairs(df)]
    /\ pc' = "extracted"
    /\ UNCHANGED <<df, sheets, query, result, terraform_data, emit_vars>>

\* accessor.find_key_by_keywords(sheet, keywords)
FindKey ==
    /\ pc = "extracted"
    /\ \E keywords \in KeywordLists :
          /\ query' = [op |-> "find_key", keywords |-> keywords]
          /\ result' = FindKeyByKeywords(sheet_data.key_value_pairs, keywords)
    /\ pc' = "queried"
    /\ UNCHANGED <<df, sheet_data, sheets, terraform_data, emit_vars>>

NextExtract == ExtractSheet \/ FindKey

SpecExtract == InitExtract /\ [][NextExtract]_vars

(***************************************************************************)
(* Properties of the extraction scenario.                                  *)
(***************************************************************************)

Tables == sheet_data.tables

KeyValuePairs == sheet_data.key_value_pairs

\* 0-based index of the first row after row h with no populated cell,
\* or the number of rows when there is none
FirstEmptyRowAfter(rows, h) ==
    LET empties == {r \in (h + 1)..(Len(rows) - 1) : NonEmptyCount(rows[r + 1]) = 0}
    IN  IF empties = {} THEN Len(rows)
        ELSE CHOOSE r \in empties : \A q \in empties : r <= q

\* row_data holds exactly the populated cells of grid_row, each under the
\* header of its own column
HoldsCellsOf(row_data, headers, grid_row) ==
    /\ \A e \in DOMAIN row_data :
          \E c \in DOMAIN grid_row :
             /\ Populated(grid_row[c])
             /\ row_data[e] = <<headers[c], Strip(grid_row[c])>>
    /\ \A c \in DOMAIN grid_row :
          Populated(grid_row[c]) => DictHas(row_data, headers[c])

\* C1: the data rows of a table are the grid rows that follow its header, in
\* order, and all of them lie before the first fully-empty row after the
\* header; the sheet "header, data row, empty row, more data rows" yields
\* for that header a table of exactly one data row.
BoundaryLaw ==
    pc # "loaded" =>
        /\ \A n \in DOMAIN Tables :
              LET t == Tables[n]
                  h == t.header_row_index
              IN  /\ h + Len(t.data) < FirstEmptyRowAfter(df, h)
                  /\ \A k \in DOMAIN t.data :
                        HoldsCellsOf(t.data[k], t.headers, df[h + k + 1])
        /\ df = BoundaryGrid =>
              /\ Cardinality({n \in DOMAIN Tables : Tables[n].header_row_index = 0}) = 1
              /\ \A n \in DOMAIN Tables :
                    Tables[n].header_row_index = 0 => Len(Tables[n].data) = 1

\* C1 witness: the example sheet has been extracted, its first table stops
\* at the empty row and populated rows follow that empty row.
BoundaryReached ==
    /\ pc = "extracted"
    /\ df = BoundaryGrid
    /\ Tables # <<>>
    /\ Tables[1].header_row_index = 0
    /\ Tables[1].row_count = 1
    /\ FirstEmptyRowAfter(df, 0) = 2
    /\ NonEmptyCount(df[4]) > 0

\* headers of t that are the trimmed text of a populated header cell
TextHeaders(t) ==
    {i \in DOMAIN t.headers :
        /\ Populated(df[t.header_row_index + 1][i])
        /\ t.headers[i] = Strip(df[t.header_row_index + 1][i])
        /\ t.headers[i] # <<>>}

\* a candidate header at 0-based row r with no populated row right after it
UnfollowedHeader(r) ==
    /\ r \in 0..(Len(df) - 1)
    /\ NonEmptyCount(df[r + 1]) >= 3
    /\ (r + 1 = Len(df) \/ NonEmptyCount(df[r + 2]) = 0)

\* C2: every table has at least 3 non-empty headers and at least 1 data row,
\* every data row holds at least one non-empty value, and a candidate header
\* that no populated row follows yields no table.
AcceptanceInvariant ==
    pc # "loaded" =>
        /\ \A n \in DOMAIN Tables :
              LET t == Tables[n]
              IN  /\ Cardinality(TextHeaders(t)) >= 3
                  /\ Len(t.headers) >= 3
                  /\ Len(t.data) >= 1
                  /\ t.row_count = Len(t.data)
                  /\ \A k \in DOMAIN t.data :
                        /\ t.data[k] # <<>>
                        /\ \A e \in DOMAIN t.data[k] : Strip(t.data[k][e][2]) # <<>>
        /\ \A r \in 0..(Len(df) - 1) :
              UnfollowedHeader(r) =>
                 \A n \in DOMAIN Tables : Tables[n].header_row_index # r

\* the header is the trimmed text of its cell, or Column_i for a blank cell
HeaderOfCell(t, i) ==
    LET cell == df[t.header_row_index + 1][i]
    IN  t.headers[i] = IF Populated(cell) THEN Strip(cell)
                       ELSE <<"C", "o", "l", "u", "m", "n", "_">> \o NatToText(i - 1)

\* C21: in every table the headers are pairwise distinct, each is the
\* trimmed text of its cell or the placeholder Column_i of a blank cell, and
\* every populated cell of a data row is stored under the header of its own
\* column with its own value
HeadersDistinctCellsKept ==
    pc # "loaded" =>
        \A n \in DOMAIN Tables :
           LET t == Tables[n]
           IN  /\ \A i, j \in DOMAIN t.headers : t.headers[i] = t.headers[j] => i = j
               /\ \A i \in DOMAIN t.headers : HeaderOfCell(t, i)
               /\ \A k \in DOMAIN t.data :
                     LET grid_row == df[t.header_row_index + k + 1]
                     IN  /\ \A c \in DOMAIN grid_row :
                               Populated(grid_row[c]) =>
                                  DictGet(t.data[k], t.headers[c], NaN) = Strip(grid_row[c])
                         /\ Len(t.data[k]) = NonEmptyCount(grid_row)

\* C2 witness: a sheet gave a table and also holds a candidate header that
\* is followed by no populated row and gave none.
AcceptanceReached ==
    /\ pc = "extracted"
    /\ Tables # <<>>
    /\ \E r \in 0..(Len(df) - 1) : UnfollowedHeader(r)

\* the blacklist of known non-data tokens, lower-cased: the placeholder and
\* option labels together with the tokens the key-value extraction rejects
NonDataTokens == {Lower(t) : t \in SkipValues} \cup KeyValueRejects

IsNonDataToken(text) == Lower(text) \in NonDataTokens

\* C3 as stated: no key and no value of the KeyValueMap is a blacklist token
\* (ignoring case), and every row whose two cells are non-empty and not
\* blacklisted has its entry.
KeyValueMapExcludesBlacklist ==
    pc # "loaded" =>
        /\ \A e \in DOMAIN KeyValuePairs :
              /\ ~IsNonDataToken(KeyValuePairs[e][1])
              /\ ~IsNonDataToken(KeyValuePairs[e][2])
        /\ \A i \in DOMAIN df :
              (/\ Len(df[i]) >= 2
               /\ KeyClean(df[i][1]) # <<>>
               /\ CellText(df[i][2]) # <<>>
               /\ ~IsNonDataToken(CellText(df[i][1]))
               /\ ~IsNonDataToken(CellText(df[i][2])))
              => DictHas(KeyValuePairs, KeyClean(df[i][1]))

\* a row of the sheet whose column 0 or column 1 is a blacklist token
BlacklistedRow(row) ==
    /\ Len(row) >= 2
    /\ (IsNonDataToken(CellText(row[1])) \/ IsNonDataToken(CellText(row[2])))

\* C4 as stated: find_key returns the first key, in map order, containing a
\* keyword ignoring case; the key it returns comes from a row that is not
\* blacklisted; on the sheet ["Project Name","Atlas"], ["Value","ignored"]
\* find_key(["project"]) is "Project Name" and no call returns "Value".
FindKeySkipsBlacklistedRows ==
    pc = "queried" =>
        /\ LET hits == {e \in DOMAIN KeyValuePairs :
                           \E j \in DOMAIN query.keywords :
                              Contains(Lower(query.keywords[j]),
                                       Lower(KeyValuePairs[e][1]))}
           IN  IF hits = {} THEN result = PyNone
               ELSE \E e \in hits :
                       /\ \A f \in hits : e <= f
                       /\ result = PyText(KeyValuePairs[e][1])
        /\ result.kind = "str" =>
              \E i \in DOMAIN df :
                 /\ ~BlacklistedRow(df[i])
                 /\ KeyClean(df[i][1]) = result.val
        /\ df = ProjectGrid =>
              /\ query.keywords = << <<"p", "r", "o", "j", "e", "c", "t">> >> => result = PyText(<<"P", "r", "o", "j", "e", "c", "t", " ", "N", "a", "m", "e">>)
              /\ result # PyText(<<"V", "a", "l", "u", "e">>)

(***************************************************************************)
(* Scenario: the workbook is extracted and loaded by the accessor, then a  *)
(* reference is resolved or the terraform-ready data is built.             *)
(***************************************************************************)

FieldHeaderRow == << <<"F", "i", "e", "l", "d">>, <<"V", "a", "l", "u", "e">>, <<"S", "o", "u", "r", "c", "e">>, NaN, NaN >>

AppNameRow == << <<"A", "b", "b", "r", "e", "v", "i", "a", "t", "e", "d", " ", "A", "p", "p", " ", "N", "a", "m", "e">>, <<"a", "p", "p">>, <<"U", "s", "e", "r">>, NaN, NaN >>

AppNameCaseRow == << <<"A", "b", "b", "r", "e", "v", "i", "a", "t", "e", "d", " ", "a", "p", "p", " ", "n", "a", "m", "e">>, <<"a", "p", "p">>, <<"U", "s", "e", "r">>, NaN, NaN >>

VmCountRow == << <<"V", "M", " ", "C", "o", "u", "n", "t">>, <<"3">>, <<"U", "s", "e", "r">>, NaN, NaN >>

VmCountTextRow == << <<"S", "e", "r", "v", "e", "r", " ", "T", "o", "t", "a", "l">>, <<"1", "_", "0", " ">>, <<"U", "s", "e", "r">>, NaN, NaN >>

ReferenceRow == << <<"Z", "o", "n", "e">>, <<"w", "a", "b", ":", "z", "o", "n", "e", "-", "n", "a", "m", "e">>, <<"U", "s", "e", "r">>, NaN, NaN >>

ResourceRowPool == { FieldHeaderRow, AppNameRow, AppNameCaseRow, VmCountRow,
                     VmCountTextRow, ReferenceRow, HeaderRow, DataRow, EmptyRow }

RECURSIVE ResourceGridsOfLength(_)
ResourceGridsOfLength(n) ==
    IF n = 0 THEN { <<>> }
    ELSE { Append(g, r) : g \in ResourceGridsOfLength(n - 1), r \in ResourceRowPool }

ResourceGrids == UNION { ResourceGridsOfLength(n) : n \in 0..MaxRows }

ReferenceValues ==
    { PyNone, PyText(<<>>), PyInt(<<"0">>), PyInt(<<"7">>), PyText(<<"p", "l", "a", "i", "n">>),
      PyText(<<"w", "a", "b", ":", "a", "p", "p", "-", "n", "a", "m", "e">>), PyText(<<"w", "a", "b", ":", "z", "o", "n", "e", "-", "C", "O", "U", "N", "T">>), PyText(<<"w", "a", "b", ":">>),
      PyText(<<"w", "a", "b", ":", "n", "o", "t", "h", "i", "n", "g">>) }

SheetNames == { "Resources", "Missing", "error" }

\* how reading the workbook ended
ReadOutcomes == { "read", "sheet_failed", "workbook_failed" }

ErrorSheet == [kind |-> "sheet", error |-> TRUE, tables |-> <<>>, key_value_pairs |-> <<>>]

ErrorText == [kind |-> "str", error |-> TRUE, tables |-> <<>>, key_value_pairs |-> <<>>]

InitAccess ==
    /\ pc = "loaded"
    /\ df \in ResourceGrids
    /\ sheet_data = NoSheet
    /\ sheets = <<>>
    /\ query = NoQuery
    /\ result = PyNone
    /\ terraform_data = NoTerraformData
    /\ EmitIdle

\* extractor._extract_sheet_data() on a workbook whose one sheet is
\* 'Resources', then the accessor loading the 'sheets' entry
LoadWorkbook ==
    /\ pc = "loaded"
    /\ \E outcome \in ReadOutcomes :
          CASE outcome = "read" ->
                  /\ sheet_data' = [tables          |-> ExtractTables(df),
                                    key_value_pairs |-> ExtractKeyValuePairs(df)]
                  /\ sheets' = << << "Resources",
                                     [kind            |-> "sheet",
                                      error           |-> FALSE,
                                      tables          |-> ExtractTables(df),
                                      key_value_pairs |-> ExtractKeyValuePairs(df)] >> >>
            [] outcome = "sheet_failed" ->
                  /\ sheet_data' = NoSheet
                  /\ sheets' = << << "Resources", ErrorSheet >> >>
            [] outcome = "workbook_failed" ->
                  /\ sheet_data' = NoSheet
                  /\ sheets' = << << "error", ErrorText >> >>
    /\ pc' = "extracted"
    /\ UNCHANGED <<df, query, result, terraform_data, emit_vars>>

\* accessor._resolve_variable_reference(value, sheet_name)
ResolveReference ==
    /\ pc = "extracted"
    /\ \E value \in ReferenceValues, sheet_name \in SheetNames :
          /\ query' = [op |-> "resolve", value |-> value, sheet_name |-> sheet_name]
          /\ result' = ResolveVariableReference(sheets, value, sheet_name)
    /\ pc' = "queried"
    /\ UNCHANGED <<df, sheet_data, sheets, terraform_data, emit_vars>>

\* accessor.get_terraform_ready_data()
BuildTerraformData ==
    /\ pc = "extracted"
    /\ terraform_data' = GetTerraformReadyData(sheets)
    /\ pc' = "ready"
    /\ UNCHANGED <<df, sheet_data, sheets, query, result, emit_vars>>

NextAccess == LoadWorkbook \/ ResolveReference \/ BuildTerraformData

SpecAccess == InitAccess /\ [][NextAccess]_vars

(***************************************************************************)
(* Properties of the accessor scenario.                                    *)
(***************************************************************************)

\* C5: resolve_reference is total: for every value (empty, absent, not a
\* text) and every sheet name (missing, carrying an error marker) the call
\* does not raise and what it returns is a string.
ResolveReferenceTotal ==
    (pc = "queried" /\ query.op = "resolve") => result.kind = "str"

\* the names of the machine records, in order
Hostnames(vm_instances) ==
    [k \in DOMAIN vm_instances |-> DictGet(vm_instances[k], <<"H", "o", "s", "t", "n", "a", "m", "e">>, <<>>)]

NoMachineTable ==
    \A t \in DOMAIN SheetsGet(sheets, "Resources").tables :
        ~IsVmTable(SheetsGet(sheets, "Resources").tables[t])

\* C6: when the Resources sheet has no machine table and the project's
\* application name is "app", the machine records are exactly the default
\* count of two, named app-01 and app-02 in that order.
DefaultMachinesNamedAfterApp ==
    ( /\ pc = "ready"
      /\ ~terraform_data.raised
      /\ NoMachineTable
      /\ DictGet(terraform_data.project_info, <<"a", "p", "p", "l", "i", "c", "a", "t", "i", "o", "n", "_", "n", "a", "m", "e">>, <<>>) = <<"a", "p", "p">> )
    => Hostnames(terraform_data.vm_instances) = << <<"a", "p", "p", "-", "0", "1">>, <<"a", "p", "p", "-", "0", "2">> >>

(***************************************************************************)
(* Scenario: a name is normalized, and the result is normalized again.     *)
(***************************************************************************)

\* longest tail of a generated name
MaxTail == 3

NameAlphabet == { "a", "B", "7", "-", "_", " ", "\t", "!" }

RECURSIVE TailsOfLength(_)
TailsOfLength(n) ==
    IF n = 0 THEN { <<>> }
    ELSE { Append(t, c) : t \in TailsOfLength(n - 1), c \in NameAlphabet }

Tails == UNION { TailsOfLength(n) : n \in 0..MaxTail }

\* lengths of the run of letters put before a tail, so that the cut at
\* MaxNameLength falls before, on and after the characters of the tail
PrefixLengths == {0} \cup ((MaxNameLength - 3)..MaxNameLength)

NameInputs ==
    { PyNone, PyInt(<<"0">>), PyInt(<<"4", "2">>) }
        \cup { PyText(Repeat("a", n) \o t) : n \in PrefixLengths, t \in Tails }

InitSanitize ==
    /\ pc = "named"
    /\ query \in { [op |-> "normalize", name |-> x, again |-> PyNone] : x \in NameInputs }
    /\ result = PyNone
    /\ df = <<>>
    /\ sheet_data = NoSheet
    /\ sheets = <<>>
    /\ terraform_data = NoTerraformData
    /\ EmitIdle

\* config.normalize_resource_name(name)
NormalizeName ==
    /\ pc = "named"
    /\ result' = PyText(NormalizeResourceName(query.name))
    /\ pc' = "normalized"
    /\ UNCHANGED <<df, sheet_data, sheets, query, terraform_data, emit_vars>>

\* config.normalize_resource_name applied to what it returned
NormalizeAgain ==
    /\ pc = "normalized"
    /\ query' = [query EXCEPT !.again = result]
    /\ result' = PyText(NormalizeResourceName(result))
    /\ pc' = "renormalized"
    /\ UNCHANGED <<df, sheet_data, sheets, terraform_data, emit_vars>>

NextSanitize == NormalizeName \/ NormalizeAgain

SpecSanitize == InitSanitize /\ [][NextSanitize]_vars

\* C7: sanitizing is idempotent: sanitizing a sanitized name returns it
\* unchanged, for empty names, names that reduce to nothing, names longer
\* than the maximum and names cut next to a separator.
SanitizeIdempotent ==
    pc = "renormalized" => result = query.again

\* a name longer than the maximum, whose cut falls right after a separator,
\* has been sanitized twice
SanitizeCutAtSeparator ==
    /\ pc = "renormalized"
    /\ query.name = PyText(Repeat("a", MaxNameLength - 1) \o <<"-", "a", "!">>)
    /\ query.again = PyText(Repeat("a", MaxNameLength - 1))
    /\ result = query.again

\* a name that reduces to nothing has been sanitized twice
SanitizeOfNothing ==
    /\ pc = "renormalized"
    /\ result.val = DefaultResourceName

\* a character kept in an identifier: a letter or a digit
IsKeptChar(c) == c \in Range(UpperLetters) \cup Range(LowerLetters) \cup Range(Digits)

\* a character rendered as the separator: whitespace, underscore, hyphen
IsSeparatorChar(c) == IsSpace(c) \/ c \in {"_", "-"}

\* the identifier of a text by the stated rule: kept characters
\* lower-cased, each run of separators between kept characters one hyphen,
\* everything else dropped, cut at the maximum length, the default token
\* when nothing remains
StatedIdentifier(text) ==
    LET marked   == [i \in DOMAIN text |->
                        IF IsKeptChar(text[i]) THEN LowerChar(text[i])
                        ELSE IF IsSeparatorChar(text[i]) THEN "-" ELSE "!"]
        kept     == SelectSeq(marked, LAMBDA c : c # "!")
        trimmed  == StripHyphens(CollapseHyphens(kept))
    IN  IF trimmed = <<>> THEN DefaultResourceName
        ELSE RStripHyphens(SubSeq(trimmed, 1, Min(60, Len(trimmed))))

\* the shape of an identifier
WellFormedIdentifier(id) ==
    /\ id # <<>>
    /\ Len(id) <= 60
    /\ \A i \in DOMAIN id : id[i] \in Range(LowerLetters) \cup Range(Digits) \cup {"-"}
    /\ id[1] # "-"
    /\ id[Len(id)] # "-"
    /\ \A i \in 1..(Len(id) - 1) : ~(id[i] = "-" /\ id[i + 1] = "-")

\* a string has been sanitized
StringSanitized == pc = "normalized" /\ query.name.kind = "str"

\* C22 (shape): for every input string the sanitized identifier is
\* non-empty, at most 60 characters, over lowercase letters, digits and the
\* hyphen, with no leading, trailing or doubled hyphen
SanitizedWellFormed ==
    StringSanitized => WellFormedIdentifier(result.val)

\* C22: for every input string the sanitized identifier is well formed,
\* every run of whitespace and underscores between kept characters is one
\* hyphen, and the result is the default token exactly when nothing else
\* remains
SanitizedAsStated ==
    StringSanitized =>
        /\ WellFormedIdentifier(result.val)
        /\ result.val = StatedIdentifier(query.name.val)

\* the actual values of the sheet the last resolve_reference call named
ActualValuesOfQuery == ExtractActualValues(sheets, query.sheet_name, ResourcesValueColumn)

\* the reference name: the prefix stripped, separators turned into spaces
NormalizedName(value) == ReplaceAll(ReplaceAll(StrOf(value), <<"w", "a", "b", ":">>, <<>>), <<"-">>, <<" ">>)

\* the first key that contains the whole name, ignoring case, or 0
WholeNameKey(actual_values, name) ==
    FirstIndex({i \in DOMAIN actual_values :
                  Contains(Lower(name), Lower(actual_values[i][1]))})

\* the first key that holds a token of the name, ignoring case, or 0
SharedTokenKey(actual_values, name) ==
    FirstIndex({i \in DOMAIN actual_values :
                  \E w \in DOMAIN Words(name) :
                     Contains(Lower(Words(name)[w]), Lower(actual_values[i][1]))})

\* C18: a prefixed value resolves to the actual value of the first key that
\* contains the whole normalized name ignoring case, else of the first key
\* that shares a token with it ignoring case, else to itself; a value
\* without the prefix is returned unchanged
ResolveReferenceOrder ==
    (/\ pc = "queried"
     /\ query.op = "resolve"
     /\ SheetsGet(sheets, query.sheet_name).kind = "sheet") =>
        IF ~Truthy(query.value) \/ ~StartsWith(StrOf(query.value), <<"w", "a", "b", ":">>)
        THEN result = query.value
        ELSE LET name  == NormalizedName(query.value)
                 whole == WholeNameKey(ActualValuesOfQuery, name)
                 token == SharedTokenKey(ActualValuesOfQuery, name)
             IN  result = IF whole # 0 THEN PyText(ActualValuesOfQuery[whole][2])
                          ELSE IF token # 0 THEN PyText(ActualValuesOfQuery[token][2])
                          ELSE query.value

(***************************************************************************)
(* Scenario: generate_terraform_files is called, and called again with the *)
(* same terraform_data, while the clock runs and a write may fail.         *)
(***************************************************************************)

\* calls of generate_terraform_files in one process
MaxRuns == 2

\* seconds the clock may advance
MaxClock == 1

Modes == { "flat", "modular" }

\* a machine whose name has an upper-case letter, an underscore and a space
NamedRow == << <<"W", "e", "b", "_", "0", "1", " ", "a">>, <<"D", "2", "s">>, <<"L", "i", "n", "u", "x">>, <<"a", "l", "i", "c", "e">>, <<"w", "e", "b">> >>

EnvironmentRow == << <<"E", "n", "v", "i", "r", "o", "n", "m", "e", "n", "t">>, <<"p", "r", "o", "d">>, <<"U", "s", "e", "r">>, NaN, NaN >>

\* the accessor's sheets for a workbook whose one sheet, Resources, is grid
WorkbookOf(grid) ==
    << << "Resources",
          [kind            |-> "sheet",
           error           |-> FALSE,
           tables          |-> ExtractTables(grid),
           key_value_pairs |-> ExtractKeyValuePairs(grid)] >> >>

ReadyDataOf(grid) == GetTerraformReadyData(WorkbookOf(grid))

RuleHeaderRow == << <<"n", "a", "m", "e">>, <<"d", "i", "r", "e", "c", "t", "i", "o", "n">>, <<"p", "r", "i", "o", "r", "i", "t", "y">>, <<"a", "c", "c", "e", "s", "s">>, <<"p", "r", "o", "t", "o", "c", "o", "l">> >>

SshRuleRow == << <<"a", "l", "l", "o", "w", "-", "s", "s", "h">>, <<"I", "n", "b", "o", "u", "n", "d">>, <<"1", "0", "0">>, <<"A", "l", "l", "o", "w">>, <<"T", "c", "p">> >>

WebRuleRow == << <<"a", "l", "l", "o", "w", "-", "w", "e", "b">>, <<"I", "n", "b", "o", "u", "n", "d">>, <<"1", "1", "0">>, <<"A", "l", "l", "o", "w">>, <<"T", "c", "p">> >>

UnnamedRuleRow == << NaN, <<"I", "n", "b", "o", "u", "n", "d">>, <<"1", "2", "0">>, <<"D", "e", "n", "y">>, <<"T", "c", "p">> >>

UndirectedRuleRow == << <<"d", "e", "n", "y", "-", "a", "l", "l">>, NaN, <<"1", "3", "0">>, <<"D", "e", "n", "y">>, <<"*">> >>

\* the accessor's sheets for a workbook whose one sheet, NSG, lists rules
RuleWorkbookOf(rule_rows) ==
    << << "NSG",
          [kind            |-> "sheet",
           error           |-> FALSE,
           tables          |-> ExtractTables(<< RuleHeaderRow >> \o rule_rows),
           key_value_pairs |-> ExtractKeyValuePairs(<< RuleHeaderRow >> \o rule_rows)] >> >>

\* rule lists: complete, with a rule that lacks its name first or last, and
\* with a rule that lacks its direction between two complete rules
RuleLists ==
    { << SshRuleRow, WebRuleRow >>,
      << UnnamedRuleRow, SshRuleRow >>,
      << SshRuleRow, UnnamedRuleRow >>,
      << SshRuleRow, UndirectedRuleRow, WebRuleRow >> }

\* terraform_data with no machines, with the default machines, of a
\* workbook that names its environment, of one with a machine table and of
\* one with both
EmitInputs ==
    { NoTerraformData, GetTerraformReadyData(<<>>),
      ReadyDataOf(<< FieldHeaderRow, AppNameRow, EnvironmentRow >>),
      ReadyDataOf(<< HeaderRow, NamedRow >>),
      ReadyDataOf(<< FieldHeaderRow, EnvironmentRow, HeaderRow, NamedRow >>) }
        \cup { GetTerraformReadyData(RuleWorkbookOf(rule_rows)) : rule_rows \in RuleLists }

InitEmit ==
    /\ pc = "ready"
    /\ df = <<>>
    /\ sheet_data = NoSheet
    /\ sheets = <<>>
    /\ query = NoQuery
    /\ result = PyNone
    /\ terraform_data \in EmitInputs
    /\ mode \in Modes
    /\ clock = 0
    /\ emit = [run |-> 1, rendered |-> 0, written |-> 0, status |-> "running",
               content |-> NoContent]
    /\ output_dir = <<>>
    /\ generated_files = <<>>
    /\ bundles = <<>>
    /\ PipelineIdle

access_vars == <<pc, df, sheet_data, sheets, query, result, terraform_data, pipeline_vars>>

\* x = self._generate_...(): the next artifact is rendered in memory
RenderArtifact ==
    /\ emit.status = "running"
    /\ emit.rendered = emit.written
    /\ emit.rendered < Len(Artifacts(mode))
    /\ emit' = [emit EXCEPT
                  !.rendered = @ + 1,
                  !.content  = Render(Artifacts(mode)[emit.rendered + 1],
                                      terraform_data, clock)]
    /\ UNCHANGED <<access_vars, mode, clock, output_dir, generated_files, bundles>>

\* with open(path, 'w') as f: f.write(x); generated_files[key] = path
WriteArtifact ==
    /\ emit.status = "running"
    /\ emit.rendered = emit.written + 1
    /\ LET artifact == Artifacts(mode)[emit.rendered]
       IN  /\ output_dir' = DictPut(output_dir, ArtifactPath(artifact), emit.content)
           /\ generated_files' = DictPut(generated_files, artifact.key,
                                         ArtifactPath(artifact))
    /\ emit' = [emit EXCEPT !.written = @ + 1]
    /\ UNCHANGED <<access_vars, mode, clock, bundles>>

\* open(path, 'w') raises OSError: the exception leaves the call
WriteFails ==
    /\ emit.status = "running"
    /\ emit.rendered = emit.written + 1
    /\ emit' = [emit EXCEPT !.status = "failed"]
    /\ UNCHANGED <<access_vars, mode, clock, output_dir, generated_files, bundles>>

\* return generated_files
ReturnBundle ==
    /\ emit.status = "running"
    /\ emit.written = Len(Artifacts(mode))
    /\ emit' = [emit EXCEPT !.status = "returned"]
    /\ bundles' = Append(bundles, [files    |-> generated_files,
                                   contents |-> output_dir])
    /\ UNCHANGED <<access_vars, mode, clock, output_dir, generated_files>>

\* generate_terraform_files(output_dir) called again on the same generator
GenerateAgain ==
    /\ emit.status = "returned"
    /\ emit.run < MaxRuns
    /\ emit' = [run |-> emit.run + 1, rendered |-> 0, written |-> 0,
                status |-> "running", content |-> NoContent]
    /\ generated_files' = <<>>
    /\ UNCHANGED <<access_vars, mode, clock, output_dir, bundles>>

\* a second passes
Tick ==
    /\ clock < MaxClock
    /\ clock' = clock + 1
    /\ UNCHANGED <<access_vars, mode, emit, output_dir, generated_files, bundles>>

NextEmit ==
    \/ RenderArtifact
    \/ WriteArtifact
    \/ WriteFails
    \/ ReturnBundle
    \/ GenerateAgain
    \/ Tick

SpecEmit == InitEmit /\ [][NextEmit]_vars

(***************************************************************************)
(* Properties of the generator scenario.                                   *)
(***************************************************************************)

\* C8: rendering the same project info and machine list twice in one
\* process gives byte-identical bundles: the same paths, and the same
\* content under every path, in the flat and in the modular mode.
RenderTwiceIdentical ==
    Len(bundles) >= 2 => bundles[1] = bundles[2]

\* C9: the bundle is written all-or-nothing: no file is in the output
\* directory before every artifact of the bundle has been rendered, so a
\* failed call leaves no partial set of artifacts behind.
WrittenAllOrNothing ==
    emit.run = 1 =>
        /\ output_dir # <<>> => emit.rendered = Len(Artifacts(mode))
        /\ emit.status = "failed" => output_dir = <<>>

CoreArtifacts == { "variables.tf", "terraform.tfvars", "outputs.tf" }

\* the resource/definition files of the two modes
DefinitionArtifacts == { "main.tf", "m-basevm.tf" }

\* C10: in both modes and for every input, the returned bundle holds a
\* resource/definition file, a variables file, a values file and an outputs
\* file, and no two of its artifacts share a path.
BundleHasCoreArtifacts ==
    emit.status = "returned" =>
        LET keys == Range(DictKeys(generated_files))
        IN  /\ keys \cap DefinitionArtifacts # {}
            /\ CoreArtifacts \subseteq keys
            /\ \A i, j \in DOMAIN generated_files :
                  i # j => generated_files[i][2] # generated_files[j][2]

\* a modular bundle for an input without machines has been returned
ModularBundleReturned ==
    /\ emit.status = "returned"
    /\ mode = "modular"
    /\ terraform_data.vm_instances = <<>>
    /\ Len(generated_files) = Len(ModularArtifacts)

\* the names a file declares or assigns
NamesOf(entries) == { entries[i].name : i \in DOMAIN entries }

\* the declaration or assignment of name in a file
EntryOf(entries, name) == entries[CHOOSE i \in DOMAIN entries : entries[i].name = name]

\* the variables whose default variables.tf renders from terraform_data
FlatWorkbookFields ==
    { "project_name", "application_name", "app_owner", "business_owner",
      "vm_count", "vm_names", "tags" }

\* the field of an object value, <<>> when absent
FieldOf(value, field) == DictGet(value.fields, field, <<>>)

\* the two files agree on the variable called name
SameValue(declared, assigned) ==
    /\ declared.text = assigned.text
    /\ \A i \in DOMAIN assigned.fields :
          DictHas(declared.fields, assigned.fields[i][1]) =>
              FieldOf(declared, assigned.fields[i][1]) = assigned.fields[i][2]

\* variables.tf and terraform.tfvars rendered from data do not contradict
Agree(m, data) ==
    LET declared == VariablesTf(m, data)
        assigned == Tfvars(m, data)
    IN  /\ \A i \in DOMAIN declared :
              declared[i].has_default \/ declared[i].name \in NamesOf(assigned)
        /\ NamesOf(assigned) \subseteq NamesOf(declared)
        /\ \A i \in DOMAIN assigned :
              LET d == EntryOf(declared, assigned[i].name)
              IN  d.open \/ \A k \in DOMAIN assigned[i].value.fields :
                               assigned[i].value.fields[k][1] \in d.fields
        /\ m = "flat" =>
              \A i \in DOMAIN assigned :
                 assigned[i].name \in FlatWorkbookFields =>
                    SameValue(EntryOf(declared, assigned[i].name).default,
                              assigned[i].value)

\* both files of the run are in the output directory
BothFilesWritten ==
    /\ DictHas(output_dir, <<OutputDir, "variables.tf">>)
    /\ DictHas(output_dir, <<OutputDir, "terraform.tfvars">>)

\* C11: in each mode the values file never contradicts the declarations:
\* every declared variable has a default or an assignment, every assigned
\* name and object field is declared, and a value assigned for a field that
\* variables.tf renders from the workbook equals the default rendered there
ValuesAgreeWithDeclarations ==
    BothFilesWritten =>
        Agree(mode, DictGet(output_dir, <<OutputDir, "terraform.tfvars">>, NoContent).data)

\* the bundle of the run has been returned
Returned == emit.status = "returned"

\* C12: every identifier the emitter derives from free text and places in
\* a generated file (machine resource names, output names, machine names in
\* the values file) is a fixed point of the sanitizer
IdentifiersSanitized ==
    Returned =>
        \A id \in Identifiers(mode, terraform_data) :
            NormalizeResourceName(PyText(id)) = id

\* main.tf and outputs.tf of a flat bundle are in the output directory
FlatFilesWritten ==
    /\ mode = "flat"
    /\ DictHas(output_dir, <<OutputDir, "main.tf">>)
    /\ DictHas(output_dir, <<OutputDir, "outputs.tf">>)

\* C25: in the flat bundle every machine resource outputs.tf refers to is
\* declared in main.tf under the same identifier, whatever the machine list
OutputsReferToDeclaredMachines ==
    FlatFilesWritten =>
        LET declared == FlatMainTfMachines(
                            DictGet(output_dir, <<OutputDir, "main.tf">>, NoContent).data)
            referred == FlatOutputsTfMachines(
                            DictGet(output_dir, <<OutputDir, "outputs.tf">>, NoContent).data)
        IN  /\ Range(referred) \subseteq Range(declared)
            /\ \A k \in DOMAIN referred : k \in DOMAIN declared /\ referred[k] = declared[k]

\* main.tf and variables.tf of a flat bundle are in the output directory
RuleFilesWritten ==
    /\ mode = "flat"
    /\ DictHas(output_dir, <<OutputDir, "main.tf">>)
    /\ DictHas(output_dir, <<OutputDir, "variables.tf">>)

\* C26: in the flat bundle every var.nsg_rules[i] of main.tf is within the
\* bounds of the list rendered for the variable nsg_rules, and element i of
\* that list is the rule the resource block was generated for
NsgReferencesInBounds ==
    RuleFilesWritten =>
        LET blocks    == NsgRuleBlocks(
                             DictGet(output_dir, <<OutputDir, "main.tf">>, NoContent).data)
            nsg_rules == GenerateNsgRulesList(
                             DictGet(output_dir, <<OutputDir, "variables.tf">>, NoContent).data)
        IN  \A b \in DOMAIN blocks :
                /\ blocks[b].index < Len(nsg_rules)
                /\ nsg_rules[blocks[b].index + 1]
                       = NsgRuleObject(blocks[b].rule, blocks[b].index)

\* the references are right when every rule has a name and a direction
NsgReferencesOfCompleteRules ==
    (RuleFilesWritten /\ \A k \in DOMAIN terraform_data.security_groups :
                             RuleRendered(terraform_data.security_groups[k]))
        => LET blocks    == NsgRuleBlocks(terraform_data)
               nsg_rules == GenerateNsgRulesList(terraform_data)
           IN  \A b \in DOMAIN blocks :
                   /\ blocks[b].index < Len(nsg_rules)
                   /\ nsg_rules[blocks[b].index + 1]
                          = NsgRuleObject(blocks[b].rule, blocks[b].index)

\* the record's value when it has one, otherwise the project-level value
\* when there is one, otherwise the constant
FallbackChain(record, record_field, project_info, project_field, constant) ==
    IF DictHas(record, record_field) THEN DictGet(record, record_field, constant)
    ELSE DictGet(project_info, project_field, constant)

\* the record the top-level values of the flat values file are read from
FirstRecord(data) ==
    IF data.vm_instances = <<>> THEN <<>> ELSE data.vm_instances[1]

\* assignment, field of the record, field of project_info, constant
FlatChainFields ==
    { << "project_name", <<"P", "r", "o", "j", "e", "c", "t", " ", "N", "a", "m", "e">>, <<"p", "r", "o", "j", "e", "c", "t", "_", "n", "a", "m", "e">>, <<"d", "e", "f", "a", "u", "l", "t", "-", "p", "r", "o", "j", "e", "c", "t">> >>,
      << "application_name", <<"A", "p", "p", "l", "i", "c", "a", "t", "i", "o", "n", " ", "N", "a", "m", "e">>, <<"a", "p", "p", "l", "i", "c", "a", "t", "i", "o", "n", "_", "n", "a", "m", "e">>, <<"d", "e", "f", "a", "u", "l", "t", "-", "a", "p", "p">> >>,
      << "environment", <<"E", "n", "v", "i", "r", "o", "n", "m", "e", "n", "t">>, <<"e", "n", "v", "i", "r", "o", "n", "m", "e", "n", "t">>, <<"d", "e", "v">> >>,
      << "vm_size", <<"R", "e", "c", "o", "m", "m", "e", "n", "d", "e", "d", " ", "S", "K", "U">>, <<"v", "m", "_", "s", "i", "z", "e">>, <<"S", "t", "a", "n", "d", "a", "r", "d", "_", "D", "2", "s", "_", "v", "3">> >>,
      << "app_owner", <<"A", "p", "p", "l", "i", "c", "a", "t", "i", "o", "n", " ", "O", "w", "n", "e", "r">>, <<"a", "p", "p", "_", "o", "w", "n", "e", "r">>, <<"T", "B", "D">> >>,
      << "business_owner", <<"B", "u", "s", "i", "n", "e", "s", "s", " ", "O", "w", "n", "e", "r">>, <<"b", "u", "s", "i", "n", "e", "s", "s", "_", "o", "w", "n", "e", "r">>, <<"T", "B", "D">> >> }

\* field of common_tags, field of project_info, constant
ModularChainFields ==
    { << "app-name", <<"a", "p", "p", "l", "i", "c", "a", "t", "i", "o", "n", "_", "n", "a", "m", "e">>, <<"d", "e", "f", "a", "u", "l", "t", "-", "a", "p", "p">> >>,
      << "environment", <<"e", "n", "v", "i", "r", "o", "n", "m", "e", "n", "t">>, <<"D", "E", "V">> >>,
      << "snow-item", <<"s", "e", "r", "v", "i", "c", "e", "_", "n", "o", "w", "_", "t", "i", "c", "k", "e", "t">>, <<"R", "I", "T", "M", "0", "0", "0", "0", "0", "0">> >> }

ValuesFileWritten == DictHas(output_dir, <<OutputDir, "terraform.tfvars">>)

WrittenData == DictGet(output_dir, <<OutputDir, "terraform.tfvars">>, NoContent).data

\* C20: every value of the values file that has a fallback chain is the
\* record's explicit value when present, otherwise the project-level value
\* when present, otherwise the hard-coded constant
FallbackChainFollowed ==
    ValuesFileWritten =>
        LET assigned == Tfvars(mode, WrittenData)
        IN  IF mode = "flat"
            THEN \A f \in FlatChainFields :
                    EntryOf(assigned, f[1]).value.text
                        = FallbackChain(FirstRecord(WrittenData), f[2],
                                        WrittenData.project_info, f[3], f[4])
            ELSE \A f \in ModularChainFields :
                    FieldOf(EntryOf(assigned, "common_tags").value, f[1])
                        = FallbackChain(<<>>, <<>>, WrittenData.project_info, f[2], f[3])

(***************************************************************************)
(* automation_pipeline.py: run() over the discovered workbooks, with the   *)
(* default configuration (several files, backup, validation, cleanup).     *)
(***************************************************************************)

\* what pd.read_excel and the three extractions leave in extracted_data for
\* one sheet: the sheet record, or the error record of the except branch
SheetEntry(sheet) ==
    IF sheet.readable
    THEN [kind            |-> "sheet",
          error           |-> FALSE,
          tables          |-> ExtractTables(sheet.grid),
          key_value_pairs |-> ExtractKeyValuePairs(sheet.grid)]
    ELSE ErrorSheet

\* a loop that stops at the first sheet it cannot read
ExtractSheetDataStopping(file) ==
    IF ~file.opens THEN << << "error", ErrorText >> >>
    ELSE LET failed == {i \in DOMAIN file.workbook : ~file.workbook[i].readable}
             last   == IF failed = {} THEN Len(file.workbook)
                       ELSE CHOOSE i \in failed : \A j \in failed : i <= j
         IN  [i \in 1..last |-> << file.workbook[i].name, SheetEntry(file.workbook[i]) >>]

\* extractor._extract_sheet_data(): extracted_data['sheets']
ExtractSheetData(file) ==
    IF ~file.opens THEN << << "error", ErrorText >> >>
    ELSE [i \in DOMAIN file.workbook |->
            << file.workbook[i].name, SheetEntry(file.workbook[i]) >>]

\* a summary that skips the entries that are not sheet records
GenerateProcessingSummaryGuarded(all_sheets) ==
    [raised |-> FALSE, sheets_processed |-> Len(all_sheets)]

\* converter._generate_processing_summary(): sheet.get('tables', []) for
\* sheet in sheets.values() raises AttributeError on a string
GenerateProcessingSummary(all_sheets) ==
    [raised           |-> \E i \in DOMAIN all_sheets : all_sheets[i][2].kind # "sheet",
     sheets_processed |-> Len(all_sheets)]

\* json_file = f"{base_name}_comprehensive_data.json"
JsonFileOf(file) == file.name \o <<"_", "c", "o", "m", "p", "r", "e", "h", "e", "n", "s", "i", "v", "e", "_", "d", "a", "t", "a", ".", "j", "s", "o", "n">>

\* converter.convert_to_json(): the name of the file written, PyNone when
\* the conversion failed, and the model exported
ConvertToJson(file) ==
    LET all_sheets == ExtractSheetData(file)
    IN  IF GenerateProcessingSummary(all_sheets).raised
        THEN [output_file |-> PyNone, sheets |-> <<>>]
        ELSE [output_file |-> PyText(JsonFileOf(file)), sheets |-> all_sheets]

\* subscription_keywords, looked for in the keys as they are written
SubscriptionKeywords == << <<"s", "u", "b", "s", "c", "r", "i", "p", "t", "i", "o", "n">>, <<"S", "u", "b", "s", "c", "r", "i", "p", "t", "i", "o", "n">>, <<"S", "U", "B", "S", "C", "R", "I", "P", "T", "I", "O", "N">> >>

\* _extract_subscription_from_json(json_file): the stripped value of the
\* first key of Resources' key_value_pairs that holds a keyword and has a
\* non-blank value, None when there is none (the exported model has no
\* 'build_environment', 'comprehensive_data' or 'vm_instances' entry)
ExtractSubscriptionFromJson(model) ==
    LET resources_kv == SheetsGet(model, "Resources").key_value_pairs
        hits == {i \in DOMAIN resources_kv :
                    /\ \E j \in DOMAIN SubscriptionKeywords :
                          Contains(SubscriptionKeywords[j], resources_kv[i][1])
                    /\ Strip(resources_kv[i][2]) # <<>>}
    IN  IF hits = {} THEN PyNone
        ELSE PyText(Strip(resources_kv[CHOOSE i \in hits : \A j \in hits : i <= j][2]))

\* re.sub(r'_+', '_', s)
RECURSIVE CollapseUnderscores(_)
CollapseUnderscores(s) ==
    IF Len(s) < 2 THEN s
    ELSE IF s[1] = "_" /\ s[2] = "_" THEN CollapseUnderscores(Tail(s))
    ELSE << s[1] >> \o CollapseUnderscores(Tail(s))

\* s.rstrip('_')
RECURSIVE RStripUnderscores(_)
RStripUnderscores(s) ==
    IF s # <<>> /\ s[Len(s)] = "_" THEN RStripUnderscores(SubSeq(s, 1, Len(s) - 1)) ELSE s

\* s.strip('_')
RECURSIVE StripUnderscores(_)
StripUnderscores(s) ==
    IF s # <<>> /\ Head(s) = "_" THEN StripUnderscores(Tail(s)) ELSE RStripUnderscores(s)

MaxDirectoryNameLength == 50

\* _sanitize_directory_name(name)
SanitizeDirectoryName(name) ==
    IF name = <<>> THEN <<"u", "n", "k", "n", "o", "w", "n">>
    ELSE LET stripped == Strip(name)
             replaced == [i \in DOMAIN stripped |->
                            IF stripped[i] \in Range(UpperLetters) \cup Range(LowerLetters)
                                                \cup Range(Digits) \cup {"_", "-"}
                            THEN stripped[i] ELSE "_"]
             clean    == StripUnderscores(CollapseUnderscores(replaced))
             limited  == IF Len(clean) > MaxDirectoryNameLength
                         THEN RStripUnderscores(SubSeq(clean, 1, MaxDirectoryNameLength))
                         ELSE clean
         IN  IF limited = <<>> THEN <<"u", "n", "k", "n", "o", "w", "n">> ELSE limited

\* datetime.now().strftime('%Y%m%d_%H%M%S'): the second the clock shows
Timestamp(now) == NatToText(now)

\* _create_dynamic_output_directory(json_file, excel_file) with the default
\* dynamic naming: '{subscription}_{timestamp}' when the model names a
\* subscription, '{excel_filename}_{timestamp}' otherwise
CreateDynamicOutputDirectory(model, file, now) ==
    LET subscription_value == ExtractSubscriptionFromJson(model)
    IN  IF Truthy(subscription_value)
        THEN SanitizeDirectoryName(subscription_value.val) \o <<"_">> \o Timestamp(now)
        ELSE SanitizeDirectoryName(file.name) \o <<"_">> \o Timestamp(now)

\* os.path.join(terraform_dir, *parts), terraform_dir being the directory
\* named for the workbook under config['output']['terraform_dir']
PipelinePath(terraform_dir, artifact) == <<OutputDir, terraform_dir>> \o artifact.parts

\* an entry of results['errors']: the message, and for an OSError the path
\* and the strerror its text holds
ErrorEntry(message, path, cause) == [message |-> message, path |-> path, cause |-> cause]

\* a recording that puts the step in front of the earlier ones
StepDoneInFront(r, step) == [r EXCEPT !.steps_completed = << step >> \o @]

\* results['steps_completed'].append(step)
StepDone(r, step) == [r EXCEPT !.steps_completed = Append(@, step)]

\* results['errors'].append(error)
WithError(r, error) == [r EXCEPT !.errors = Append(@, error)]

\* the artifact whose open() fails for this workbook, 0 when all can be written
FailingArtifact(file, m) ==
    IF file.unwritable \in DOMAIN Artifacts(m) THEN file.unwritable ELSE 0

\* required_files of _validate_outputs
RequiredFiles == << "main.tf", "variables.tf", "terraform.tfvars", "provider.tf" >>

\* _validate_outputs(processed_files): a warning for the model file of a
\* processed workbook that does not exist and for each required file that
\* is not in its directory; success is never set to False
ValidateOutputs(files, processed, models, directory, dirs) ==
    LET warnings_of(i) ==
           (IF DictHas(models, JsonFileOf(files[i])) THEN <<>>
            ELSE << [missing |-> "json", workbook |-> i] >>)
           \o SelectSeq([k \in DOMAIN RequiredFiles |->
                            [missing |-> RequiredFiles[k], workbook |-> i]],
                        LAMBDA w : ~DictHas(directory,
                                            PipelinePath(dirs[i],
                                                         [parts |-> << w.missing >>])))
        RECURSIVE all(_)
        all(k) == IF k > Len(processed) THEN <<>>
                  ELSE warnings_of(processed[k]) \o all(k + 1)
    IN  [success |-> TRUE, warnings |-> all(1)]

\* _generate_summary_report(results, processed_files): the counts and flags
\* copied from results as they are when the report is made
GenerateSummaryReport(r, processed) ==
    [steps_completed  |-> Len(r.steps_completed),
     duration_seconds |-> r.duration_seconds,
     success          |-> r.success,
     files_processed  |-> Len(processed)]

\* the files generate_terraform_files leaves in the directory of a workbook:
\* those written before the failing one, all of them without a failure
RECURSIVE WriteAll(_, _)
WriteAll(directory, written) ==
    IF written = <<>> THEN directory
    ELSE WriteAll(DictPut(directory, Head(written)[1], Head(written)[2]), Tail(written))

FilesWritten(file, terraform_dir, m, data, now) ==
    LET stop == FailingArtifact(file, m)
        last == IF stop = 0 THEN Len(Artifacts(m)) ELSE stop - 1
    IN  [k \in 1..last |-> << PipelinePath(terraform_dir, Artifacts(m)[k]),
                              Render(Artifacts(m)[k], data, now) >>]


(***************************************************************************)
(* Scenario: one pipeline run over one or two workbooks; a workbook may    *)
(* fail to open, any of its sheets may fail to be read, and one of its     *)
(* artifacts may fail to be written.                                       *)
(***************************************************************************)

\* the sheets a workbook may hold, in workbook order; Resources is the one
\* the accessor reads
SheetPool ==
    << [name |-> "Notes",     grid |-> << HeaderRow, DataRow >>],
       [name |-> "Resources", grid |-> << FieldHeaderRow, AppNameRow >>],
       [name |-> "Summary",   grid |-> <<>>] >>

\* per sheet of the pool: not in the workbook, read, or failing to be read
SheetStates == { "absent", "read", "failed" }

\* the workbook whose sheets are in the given states
WorkbookIn(states) ==
    LET present == {i \in DOMAIN SheetPool : states[i] # "absent"}
        nth(k)  == CHOOSE i \in present : Cardinality({j \in present : j <= i}) = k
    IN  [k \in 1..Cardinality(present) |->
            [name     |-> SheetPool[nth(k)].name,
             grid     |-> SheetPool[nth(k)].grid,
             readable |-> states[nth(k)] = "read"]]

\* a workbook has at least one sheet
Workbooks ==
    { WorkbookIn(states) : states \in [DOMAIN SheetPool -> SheetStates] } \ { <<>> }

\* a workbook whose sheet Resources names the subscription "Prod Sub 1"
SubscriptionRow == << <<"S", "u", "b", "s", "c", "r", "i", "p", "t", "i", "o", "n">>, <<"P", "r", "o", "d", " ", "S", "u", "b", " ", "1">>, <<"U", "s", "e", "r">>, NaN, NaN >>

SubscribedWorkbook(row) ==
    << [name     |-> "Resources",
        grid     |-> << FieldHeaderRow, SubscriptionRow, row >>,
        readable |-> TRUE] >>

\* a workbook file: its base name and extension, whether it opens, its
\* sheets, and the artifact that cannot be written for it (0: none)
ExcelFile(name, ext, opens, workbook, unwritable) ==
    [name |-> name, ext |-> ext, opens |-> opens, workbook |-> workbook,
     unwritable |-> unwritable]

FirstFiles ==
    { ExcelFile(<<"a">>, "xlsx", FALSE, <<>>, 0) }
    \cup { ExcelFile(<<"a">>, "xlsx", TRUE, w, u) : w \in Workbooks, u \in {0, 2} }


SecondFiles ==
    { ExcelFile(<<"b">>, "xlsx", FALSE, <<>>, 0),
      ExcelFile(<<"b">>, "xlsx", TRUE, WorkbookIn(<<"absent", "read", "absent">>), 0),
      ExcelFile(<<"b">>, "xlsx", TRUE, WorkbookIn(<<"read", "absent", "absent">>), 2) }

\* two workbooks of one base name, two of one subscription, and two that
\* share neither
FileListsOfTwo ==
    LET resources == WorkbookIn(<<"absent", "read", "absent">>)
        notes     == WorkbookIn(<<"read", "absent", "absent">>)
    IN  { << ExcelFile(<<"a">>, "xlsx", TRUE, resources, 0),
             ExcelFile(<<"a">>, "xlsm", TRUE, notes, 0) >>,
          << ExcelFile(<<"a">>, "xlsx", FALSE, <<>>, 0),
             ExcelFile(<<"a">>, "xlsm", TRUE, notes, 0) >>,
          << ExcelFile(<<"a">>, "xlsx", TRUE, SubscribedWorkbook(AppNameRow), 0),
             ExcelFile(<<"b">>, "xlsx", TRUE, SubscribedWorkbook(EnvironmentRow), 0) >>,
          << ExcelFile(<<"a">>, "xlsx", TRUE, SubscribedWorkbook(AppNameRow), 0),
             ExcelFile(<<"b">>, "xlsx", TRUE, resources, 0) >> }

ExcelFileLists ==
    { <<>> } \cup { <<f>> : f \in FirstFiles }
             \cup { <<f, g>> : f \in FirstFiles, g \in SecondFiles }
             \cup FileListsOfTwo

InitPipeline ==
    /\ pc = "start"
    /\ df = <<>>
    /\ sheet_data = NoSheet
    /\ sheets = <<>>
    /\ query = NoQuery
    /\ result = PyNone
    /\ terraform_data = NoTerraformData
    /\ mode \in Modes
    /\ clock = 0
    /\ emit = [run |-> 0, rendered |-> 0, written |-> 0, status |-> "idle",
               content |-> NoContent]
    /\ output_dir = <<>>
    /\ generated_files = <<>>
    /\ bundles = <<>>
    /\ excel_files \in ExcelFileLists
    /\ current = 0
    /\ json_files = <<>>
    /\ processed_files = <<>>
    /\ terraform_dirs = [i \in DOMAIN excel_files |-> <<>>]
    /\ results = NoResults
    /\ args \in [dry_run : BOOLEAN]
    /\ saved_results = <<>>
    /\ notifications = <<>>
    /\ exit_code = -1

idle_vars == <<df, sheet_data, query, result, clock, emit, bundles,
               args, saved_results, notifications, exit_code>>

\* main() with --dry-run: only _validate_inputs() is called
DryRun ==
    /\ pc = "start"
    /\ args.dry_run
    /\ exit_code' = IF excel_files # <<>> THEN 0 ELSE 1
    /\ pc' = "exited"
    /\ UNCHANGED <<df, sheet_data, sheets, query, result, terraform_data, mode, clock,
                   emit, output_dir, generated_files, bundles, excel_files, current,
                   json_files, processed_files, terraform_dirs, results, args,
                   saved_results, notifications>>

\* the position after workbook i: the next workbook, or the end of the loop
AfterFile(i) == IF i < Len(excel_files) THEN "extract" ELSE "finish"

\* run(), steps 1 and 2: _validate_inputs() fails when no workbook was
\* discovered; then the previous outputs are backed up, and an exception of
\* the copy (OSError of shutil.copytree) is caught by run()'s except branch
ValidateInputs ==
    /\ pc = "start"
    /\ ~args.dry_run
    /\ IF excel_files = <<>>
       THEN /\ results' = WithError(results, ErrorEntry("No Excel files found", <<>>, ""))
            /\ pc' = "closing"
            /\ current' = current
       ELSE \E backup_raises \in BOOLEAN :
               IF backup_raises
               THEN /\ results' = WithError(StepDone(results, <<"validation", 0>>),
                                            ErrorEntry("Pipeline failed with exception",
                                                       <<>>, "OSError"))
                    /\ pc' = "closing"
                    /\ current' = current
               ELSE /\ results' = StepDone(StepDone(results, <<"validation", 0>>),
                                           <<"backup", 0>>)
                    /\ pc' = "extract"
                    /\ current' = 1
    /\ UNCHANGED <<idle_vars, sheets, terraform_data, mode, output_dir, generated_files,
                   excel_files, json_files, processed_files, terraform_dirs>>

\* run(), step 3: _extract_excel_data(excel_file)
ExtractExcelData ==
    /\ pc = "extract"
    /\ LET file        == excel_files[current]
           json_result == ConvertToJson(file)
       IN  /\ sheets' = ExtractSheetData(file)
           /\ IF json_result.output_file # PyNone
              THEN /\ json_files' = DictPut(json_files, StrOf(json_result.output_file),
                                            json_result.sheets)
                   /\ results' = [StepDone(results, <<"excel_extraction", current>>)
                                    EXCEPT !.files_generated =
                                              Append(@, StrOf(json_result.output_file))]
                   /\ pc' = "generate"
                   /\ current' = current
              ELSE /\ json_files' = json_files
                   /\ results' = WithError(results,
                                           ErrorEntry("Failed to create JSON file", <<>>, ""))
                   /\ pc' = AfterFile(current)
                   /\ current' = IF current < Len(excel_files) THEN current + 1 ELSE current
    /\ UNCHANGED <<idle_vars, terraform_data, mode, output_dir, generated_files,
                   excel_files, processed_files, terraform_dirs>>

\* run(), step 4: _generate_terraform_files(json_file, excel_file), at the
\* second the clock shows by then
GenerateTerraformFiles ==
    /\ pc = "generate"
    /\ \E now \in clock..MaxClock :
        LET file          == excel_files[current]
            model         == DictGet(json_files, JsonFileOf(file), <<>>)
            terraform_dir == CreateDynamicOutputDirectory(model, file, now)
            data          == GetTerraformReadyData(model)
            stop          == FailingArtifact(file, mode)
            written       == FilesWritten(file, terraform_dir, mode, data, now)
        IN  /\ clock' = now
            /\ terraform_dirs' = [terraform_dirs EXCEPT ![current] = terraform_dir]
            /\ terraform_data' = data
            /\ IF data.raised
               THEN /\ output_dir' = output_dir
                    /\ generated_files' = <<>>
                    /\ processed_files' = processed_files
                    /\ results' = WithError(results,
                                    ErrorEntry("Terraform generation failed", <<>>,
                                               "AttributeError"))
               ELSE /\ output_dir' = WriteAll(output_dir, written)
                    /\ generated_files' = [k \in DOMAIN written |->
                                             << Artifacts(mode)[k].key, written[k][1] >>]
                    /\ IF stop # 0
                       THEN /\ processed_files' = processed_files
                            /\ results' = WithError(results,
                                            ErrorEntry("Terraform generation failed",
                                                       PipelinePath(terraform_dir,
                                                                    Artifacts(mode)[stop]),
                                                       "Permission denied"))
                       ELSE /\ processed_files' = Append(processed_files, current)
                            /\ results' = [StepDone(results, <<"terraform_generation", current>>)
                                             EXCEPT !.files_generated =
                                                @ \o [k \in DOMAIN written |->
                                                        Artifacts(mode)[k].key]]
    /\ pc' = AfterFile(current)
    /\ current' = IF current < Len(excel_files) THEN current + 1 ELSE current
    /\ UNCHANGED <<df, sheet_data, query, result, emit, bundles, args, saved_results,
                   notifications, exit_code, sheets, mode, excel_files, json_files>>

\* run(), after the loop: no workbook processed is an error; otherwise the
\* outputs are validated, the report written, and success is set
Finish ==
    /\ pc = "finish"
    /\ IF processed_files = <<>>
       THEN results' = WithError(results,
                                 ErrorEntry("No files were successfully processed", <<>>, ""))
       ELSE LET validation_result == ValidateOutputs(excel_files, processed_files,
                                                     json_files, output_dir,
                                                     terraform_dirs)
                validated == StepDone([results EXCEPT !.warnings =
                                          IF ~validation_result.success
                                          THEN @ \o validation_result.warnings ELSE @],
                                      <<"output_validation", 0>>)
                reported  == StepDone([validated EXCEPT !.summary =
                                          GenerateSummaryReport(validated, processed_files)],
                                      <<"summary_report", 0>>)
            IN  results' = [StepDone(reported, <<"cleanup", 0>>) EXCEPT !.success = TRUE]
    /\ pc' = "closing"
    /\ UNCHANGED <<idle_vars, sheets, terraform_data, mode, output_dir, generated_files,
                   excel_files, current, json_files, processed_files, terraform_dirs>>

\* self.start_time, taken when the pipeline object is constructed
StartTime == 0

\* a closing that records the end time only
CloseResultsUntimed(r, now) == [r EXCEPT !.end_time = now]

\* results['end_time'] = end_time; results['duration_seconds'] = end_time -
\* self.start_time
CloseResults(r, now) ==
    [r EXCEPT !.end_time = now, !.duration_seconds = now - StartTime]

\* run(), the finally block: end time and duration are recorded, the
\* results saved and the notification sent; then run() returns results
RecordAndNotify ==
    /\ pc = "closing"
    /\ \E now \in clock..MaxClock :
          LET closed == CloseResults(results, now)
          IN  /\ clock' = now
              /\ results' = closed
              /\ saved_results' = Append(saved_results, closed)
              /\ notifications' = Append(notifications, closed.success)
    /\ pc' = "finished"
    /\ UNCHANGED <<df, sheet_data, sheets, query, result, terraform_data, mode, emit,
                   output_dir, generated_files, bundles, excel_files, current,
                   json_files, processed_files, terraform_dirs, args, exit_code>>

\* main(), after pipeline.run(): the exit code
Exit ==
    /\ pc = "finished"
    /\ exit_code' = IF results.success THEN 0 ELSE 2
    /\ pc' = "exited"
    /\ UNCHANGED <<df, sheet_data, sheets, query, result, terraform_data, mode, clock,
                   emit, output_dir, generated_files, bundles, excel_files, current,
                   json_files, processed_files, terraform_dirs, results, args,
                   saved_results, notifications>>

NextPipeline ==
    \/ DryRun
    \/ ValidateInputs
    \/ ExtractExcelData
    \/ GenerateTerraformFiles
    \/ Finish
    \/ RecordAndNotify
    \/ Exit

SpecPipeline == InitPipeline /\ [][NextPipeline]_vars

\* the positions of main() and run()
Positions == { "start", "extract", "generate", "finish", "closing", "finished", "exited" }

\* main() has not returned and moves to another position
Proceeds ==
    /\ pc # "exited"
    /\ pc' \in Positions \ { pc }

\* main() and run() are sequential code whose every call returns or raises:
\* as long as main() has not returned, it moves on
FairPipeline == SpecPipeline /\ WF_pc(Proceeds)


(***************************************************************************)
(* Properties of the pipeline scenario.                                    *)
(***************************************************************************)

\* the run is past workbook i
Handled(i) ==
    current > i \/ (current = i /\ pc \in {"finish", "closing", "finished", "exited"})

\* the Workbook Model exported for a workbook, <<>> when there is none
ModelOf(file) == DictGet(json_files, JsonFileOf(file), <<>>)

Steps == Range(results.steps_completed)

Errors == Range(results.errors)

\* the paths of the output directory that are in the directory named for
\* workbook i
PathsOf(i) ==
    { output_dir[k][1] : k \in { j \in DOMAIN output_dir :
                                   SubSeq(output_dir[j][1], 1, 2) =
                                       <<OutputDir, terraform_dirs[i]>> } }

\* another workbook of the run has the same base name and was extracted
SameNameExtracted(i) ==
    \E j \in DOMAIN excel_files \ {i} :
        /\ excel_files[j].name = excel_files[i].name
        /\ <<"excel_extraction", j>> \in Steps

\* the JSON file under the name of workbook i is the one its own extraction
\* wrote: no later workbook of the same base name has been extracted
OwnModel(i) ==
    /\ <<"excel_extraction", i>> \in Steps
    /\ ~\E j \in DOMAIN excel_files :
          /\ j > i
          /\ excel_files[j].name = excel_files[i].name
          /\ <<"excel_extraction", j>> \in Steps

\* C13: when a sheet cannot be read it is recorded with an error marker, no
\* table and no key-value pair, and every other sheet of the workbook,
\* before and after it, is in the model with its own tables and pairs (the
\* model being the one the workbook's own extraction exported)
SheetFailureIsolated ==
    \A i \in DOMAIN excel_files :
        LET file == excel_files[i]
        IN  OwnModel(i) =>
               /\ DictHas(json_files, JsonFileOf(file))
               /\ Len(ModelOf(file)) = Len(file.workbook)
               /\ \A k \in DOMAIN file.workbook :
                     LET sheet == file.workbook[k]
                         entry == ModelOf(file)[k][2]
                     IN  /\ ModelOf(file)[k][1] = sheet.name
                         /\ entry.kind = "sheet"
                         /\ entry.error = ~sheet.readable
                         /\ entry.tables =
                               IF sheet.readable THEN ExtractTables(sheet.grid) ELSE <<>>
                         /\ entry.key_value_pairs =
                               IF sheet.readable THEN ExtractKeyValuePairs(sheet.grid)
                               ELSE <<>>

\* a model was exported for a workbook whose second sheet failed between two
\* sheets that were read, the first of them holding a table
FailedSheetBetweenRead ==
    \E i \in DOMAIN excel_files :
        /\ DictHas(json_files, JsonFileOf(excel_files[i]))
        /\ Len(excel_files[i].workbook) = Len(SheetPool)
        /\ excel_files[i].workbook[1].readable
        /\ ~excel_files[i].workbook[2].readable
        /\ excel_files[i].workbook[3].readable
        /\ ModelOf(excel_files[i])[1][2].tables # <<>>

\* C14: a workbook that cannot be opened gives no JSON model file (a file
\* under its name can only come from another workbook of the same base
\* name), its extraction step is not recorded as completed, the failure is
\* in the run's errors, and no generation step runs on it: no directory is
\* named for it
UnopenableWorkbookFatal ==
    \A i \in DOMAIN excel_files :
        LET file == excel_files[i]
        IN  ~file.opens =>
               /\ DictHas(json_files, JsonFileOf(file)) => SameNameExtracted(i)
               /\ <<"excel_extraction", i>> \notin Steps
               /\ <<"terraform_generation", i>> \notin Steps
               /\ terraform_dirs[i] = <<>>
               /\ PathsOf(i) = {}
               /\ i \notin Range(processed_files)
               /\ Handled(i) =>
                     \E e \in Errors : e.message = "Failed to create JSON file"

\* the run finished: its first workbook could not be opened, its second
\* one was processed
UnopenableThenProcessed ==
    /\ pc = "finished"
    /\ Len(excel_files) > 1
    /\ ~excel_files[1].opens
    /\ Range(processed_files) # {}
    /\ results.success

\* the workbooks of the run with an artifact that could not be written
WriteFailed ==
    { i \in DOMAIN excel_files :
        /\ excel_files[i].opens
        /\ FailingArtifact(excel_files[i], mode) # 0 }

\* C15: an artifact that cannot be written is fatal for the run: the run's
\* result reports success false and its errors name the path that could
\* not be written and the cause
WriteFailureFailsRun ==
    pc = "finished" =>
        \A i \in WriteFailed :
            /\ ~results.success
            /\ \E e \in Errors :
                  /\ e.path = PipelinePath(terraform_dirs[i],
                                           Artifacts(mode)[FailingArtifact(excel_files[i], mode)])
                  /\ e.cause # ""

\* the bundle of a workbook is complete: every artifact of the mode is in
\* its directory, rendered from data in which default machines stand in
BundleComplete(i) ==
    \A k \in DOMAIN Artifacts(mode) :
        /\ DictHas(output_dir, PipelinePath(terraform_dirs[i], Artifacts(mode)[k]))
        /\ LET content == DictGet(output_dir, PipelinePath(terraform_dirs[i], Artifacts(mode)[k]),
                                  NoContent)
           IN  /\ content.artifact = Artifacts(mode)[k].key
               /\ content.data.vm_instances # <<>>

\* the copy of the previous outputs could not be written and ended the run
BackupFailed == \E e \in Errors : e.message = "Pipeline failed with exception"

ModelKept(i) ==
    /\ DictHas(json_files, JsonFileOf(excel_files[i]))
    /\ ModelOf(excel_files[i]) = ConvertToJson(excel_files[i]).sheets

\* the output directory of workbook i holds every artifact, rendered from
\* the data derived from that workbook
BundleKept(i) ==
    \A k \in DOMAIN Artifacts(mode) :
        LET path == PipelinePath(terraform_dirs[i], Artifacts(mode)[k])
        IN  /\ DictHas(output_dir, path)
            /\ DictGet(output_dir, path, NoContent).data
                  = GetTerraformReadyData(ConvertToJson(excel_files[i]).sheets)

\* C27: workbooks processed in one run do not interfere: after the run the
\* JSON model file and the output directory of every processed workbook
\* hold the data derived from that workbook, whatever other workbook was
\* processed in the run
WorkbooksIndependent ==
    pc = "finished" =>
        \A i \in Range(processed_files) : ModelKept(i) /\ BundleKept(i)

\* the model file is kept when no other extracted workbook has the same
\* base name, the directory when no other workbook was given the same name
DistinctWorkbooksIndependent ==
    pc = "finished" =>
        \A i \in Range(processed_files) :
            /\ ~SameNameExtracted(i) => ModelKept(i)
            /\ (\A j \in DOMAIN excel_files \ {i} : terraform_dirs[j] # terraform_dirs[i])
                   => BundleKept(i)

\* the place of a step in the order of a run over the discovered workbooks
StepRank(step) ==
    CASE step[1] = "validation"           -> 0
      [] step[1] = "backup"               -> 1
      [] step[1] = "excel_extraction"     -> 2 * step[2]
      [] step[1] = "terraform_generation" -> 2 * step[2] + 1
      [] step[1] = "output_validation"    -> 2 * Len(excel_files) + 2
      [] step[1] = "summary_report"       -> 2 * Len(excel_files) + 3
      [] step[1] = "cleanup"              -> 2 * Len(excel_files) + 4

ClosingSteps == { <<"output_validation", 0>>, <<"summary_report", 0>>, <<"cleanup", 0>> }

\* C28: the recorded steps follow one order: validation, backup, then for
\* each workbook in discovery order its extraction followed by its
\* generation, then output validation, summary report and cleanup; no
\* generation is recorded without the extraction of the same workbook just
\* before it, a workbook that fails does not stop the next one, and the
\* closing steps are recorded only when a workbook completed both steps
StepsInOrder ==
    LET steps == results.steps_completed
    IN  /\ \A k \in DOMAIN steps :
              /\ k = 1 => steps[k] = <<"validation", 0>>
              /\ k > 1 => StepRank(steps[k - 1]) < StepRank(steps[k])
              /\ steps[k][1] = "backup" => k = 2
              /\ steps[k][1] = "terraform_generation" =>
                    k > 1 /\ steps[k - 1] = <<"excel_extraction", steps[k][2]>>
              /\ steps[k] \in ClosingSteps =>
                    \E i \in DOMAIN excel_files :
                        /\ <<"excel_extraction", i>> \in Steps
                        /\ <<"terraform_generation", i>> \in Steps
        /\ (pc = "finished" /\ excel_files # <<>> /\ ~BackupFailed) =>
              /\ \A i \in DOMAIN excel_files :
                    /\ excel_files[i].opens <=> <<"excel_extraction", i>> \in Steps
                    /\ (excel_files[i].opens /\ i \notin WriteFailed)
                          <=> <<"terraform_generation", i>> \in Steps
              /\ (\E i \in DOMAIN excel_files : <<"terraform_generation", i>> \in Steps)
                    => ClosingSteps \subseteq Steps

\* the run finished: its first workbook was extracted and its generation
\* failed, its second one completed both steps, and the closing steps
\* were recorded
FailedThenCompleted ==
    /\ pc = "finished"
    /\ Len(excel_files) = 2
    /\ results.steps_completed =
          << <<"validation", 0>>, <<"backup", 0>>, <<"excel_extraction", 1>>,
             <<"excel_extraction", 2>>, <<"terraform_generation", 2>>,
             <<"output_validation", 0>>, <<"summary_report", 0>>, <<"cleanup", 0>> >>

\* run() was entered and has not returned
Running == ~args.dry_run /\ pc \in {"start", "extract", "generate", "finish", "closing"}

\* run() has returned: the end time and the duration are in the results,
\* the results were saved once, as they are returned, and one notification
\* was sent with their success
ClosedOnce ==
    /\ results.end_time = clock
    /\ results.duration_seconds = results.end_time - StartTime
    /\ saved_results = << results >>
    /\ notifications = << results.success >>

SummaryReturned == pc = "finished" /\ <<"summary_report", 0>> \in Steps

\* C30: in the results a run returns, the summary report agrees with the
\* results it is part of: the same success, the same duration and the
\* number of steps recorded in steps_completed
SummaryAgreesWithResults ==
    SummaryReturned =>
        /\ results.summary.success = results.success
        /\ results.summary.duration_seconds = results.duration_seconds
        /\ results.summary.steps_completed = Len(results.steps_completed)

\* the summary holds the results as they were when the report was made:
\* before the steps summary_report and cleanup were recorded, before
\* success was set and before the duration was measured
SummaryIsSnapshot ==
    SummaryReturned =>
        /\ results.summary.success = FALSE
        /\ results.summary.duration_seconds = 0
        /\ results.summary.steps_completed = Len(results.steps_completed) - 2
        /\ results.summary.files_processed = Len(processed_files)

\* the files of the documented package structure
PackageStructure ==
    { << "main.tf" >>, << "variables.tf" >>, << "terraform.tfvars" >>,
      << "terraform.auto.tfvars.example" >>, << "outputs.tf" >>, << "provider.tf" >>,
      << ".gitignore" >>, << "README.md" >>, << "scripts", "validate.sh" >>,
      << "docs", "DEPLOYMENT_GUIDE.md" >> }

\* the directory of workbook i holds the file
InBundle(i, parts) == DictHas(output_dir, PipelinePath(terraform_dirs[i], [parts |-> parts]))

\* C23: in either mode the bundle of every processed workbook holds each
\* file the output validation requires and each file of the documented
\* package structure, and the output validation finds no required file
\* missing
BundleMeetsValidation ==
    pc = "finished" =>
        /\ \A k \in DOMAIN processed_files :
              /\ \A f \in DOMAIN RequiredFiles :
                    InBundle(processed_files[k], << RequiredFiles[f] >>)
              /\ \A parts \in PackageStructure : InBundle(processed_files[k], parts)
        /\ ValidateOutputs(excel_files, processed_files, json_files, output_dir,
                        terraform_dirs).warnings
              = <<>>

\* the same for the flat mode alone
FlatBundleMeetsValidation == mode = "flat" => BundleMeetsValidation

\* the input validation failed: no workbook was found
ConfigurationError == excel_files = <<>>

\* the inputs were valid and the run did not succeed
ProcessingError == ~args.dry_run /\ excel_files # <<>> /\ ~results.success

\* the run processed a workbook and the output validation found a file missing
ValidationError ==
    /\ <<"output_validation", 0>> \in Steps
    /\ ValidateOutputs(excel_files, processed_files, json_files, output_dir,
                        terraform_dirs).warnings # <<>>

\* C24: the exit code of main is 0 exactly when there was no failure, 1 for
\* a configuration error, 2 for a processing error and 3 for a validation
\* error, on every path
ExitCodeTable ==
    pc = "exited" =>
        /\ exit_code = 0 <=> ~(ConfigurationError \/ ProcessingError \/ ValidationError)
        /\ ConfigurationError => exit_code = 1
        /\ ProcessingError => exit_code = 2
        /\ ValidationError => exit_code = 3

\* the part of the table the dry run follows
DryRunExitCode ==
    (pc = "exited" /\ args.dry_run) => exit_code = IF ConfigurationError THEN 1 ELSE 0

\* what main returns after a run
RunExitCode ==
    (pc = "exited" /\ ~args.dry_run) => exit_code = IF results.success THEN 0 ELSE 2


(***************************************************************************)
(* Scenario: the accessor has loaded a Workbook Model the extractor        *)
(* produced, and one lookup is made.                                       *)
(***************************************************************************)

\* the models of the workbooks of the pipeline scenario: read, with sheets
\* carrying an error marker, or holding only the workbook-level error entry
LookupModels == { ExtractSheetData(f) : f \in FirstFiles }

LookupSheetNames == { "Resources", "Notes", "Missing", "error" }

\* table_index: negative, first, second, out of range
TableIndexes == { -1, 0, 1, 7 }

InitLookup ==
    /\ pc = "extracted"
    /\ df = <<>>
    /\ sheet_data = NoSheet
    /\ sheets \in LookupModels
    /\ query = NoQuery
    /\ result = PyNone
    /\ terraform_data = NoTerraformData
    /\ EmitIdle

\* accessor.get_table_by_headers(sheet_name, header_keywords)
FindTable ==
    /\ pc = "extracted"
    /\ \E sheet_name \in LookupSheetNames, keywords \in KeywordLists :
          /\ query' = [op |-> "find_table", sheet_name |-> sheet_name,
                       keywords |-> keywords, table_index |-> 0]
          /\ result' = GetTableByHeaders(sheets, sheet_name, keywords)
    /\ pc' = "queried"
    /\ UNCHANGED <<df, sheet_data, sheets, terraform_data, emit_vars>>

\* accessor.get_column_by_keywords(sheet_name, keywords, table_index)
FindColumn ==
    /\ pc = "extracted"
    /\ \E sheet_name \in LookupSheetNames, keywords \in KeywordLists,
          table_index \in TableIndexes :
          /\ query' = [op |-> "find_column", sheet_name |-> sheet_name,
                       keywords |-> keywords, table_index |-> table_index]
          /\ result' = GetColumnByKeywords(sheets, sheet_name, keywords, table_index)
    /\ pc' = "queried"
    /\ UNCHANGED <<df, sheet_data, sheets, terraform_data, emit_vars>>

\* accessor.find_key_by_keywords(sheet_name, keywords)
FindKeyOfSheet ==
    /\ pc = "extracted"
    /\ \E sheet_name \in LookupSheetNames, keywords \in KeywordLists :
          /\ query' = [op |-> "find_key", sheet_name |-> sheet_name,
                       keywords |-> keywords, table_index |-> 0]
          /\ result' = FindKeyInSheet(sheets, sheet_name, keywords)
    /\ pc' = "queried"
    /\ UNCHANGED <<df, sheet_data, sheets, terraform_data, emit_vars>>

NextLookup == FindTable \/ FindColumn \/ FindKeyOfSheet

SpecLookup == InitLookup /\ [][NextLookup]_vars

\* C17: find_table, find_column and find_key never raise: for every model,
\* sheet name, table index and keyword list the lookup returns a match or
\* the not-found value
LookupsNeverRaise ==
    pc = "queried" => result.kind # "raise"

(***************************************************************************)
(* Scenario: the machines of a resources sheet.  The sheet is 4 or 5       *)
(* columns wide and its rows include rows with fewer than three cells.     *)
(***************************************************************************)

TwoFieldRow == << <<"d", "b", "0", "2">>, <<"L", "4", "s">>, NaN, NaN, NaN >>

MachineRowPool == { HeaderRow, DataRow, GappedRow, TwoFieldRow, SparseRow,
                    AppNameRow, EmptyRow }

\* widths of the sheet: one column short of a machine table, and enough
SheetWidths == { MinVmColumns - 1, MinVmColumns }

RECURSIVE MachineGridsOfLength(_)
MachineGridsOfLength(n) ==
    IF n = 0 THEN { <<>> }
    ELSE { Append(g, r) : g \in MachineGridsOfLength(n - 1), r \in MachineRowPool }

MachineGrids ==
    { [k \in DOMAIN g |-> SubSeq(g[k], 1, w)] :
         g \in UNION { MachineGridsOfLength(n) : n \in 0..MaxRows },
         w \in SheetWidths }

InitMachines ==
    /\ pc = "loaded"
    /\ df \in MachineGrids
    /\ sheet_data = NoSheet
    /\ sheets = <<>>
    /\ query = NoQuery
    /\ result = PyNone
    /\ terraform_data = NoTerraformData
    /\ EmitIdle

NextMachines == LoadWorkbook \/ BuildTerraformData

SpecMachines == InitMachines /\ [][NextMachines]_vars

ResourcesTables == SheetsGet(sheets, "Resources").tables

HeaderSignal(table) ==
    \E h \in DOMAIN table.headers : AnyIn(VmKeywords, table.headers[h])

DataSignal(table) ==
    /\ table.data # <<>>
    /\ \E e \in DOMAIN table.data[1] : AnyIn(VmDataKeywords, table.data[1][e][1])

MachineTableByRule(table) ==
    /\ Len(table.headers) >= 5
    /\ Len(table.data) >= 1
    /\ HeaderSignal(table) \/ DataSignal(table)

NonEmptyFields(row) == SelectSeq(row, LAMBDA e : Strip(e[2]) # <<>>)

\* one record per row with three non-empty fields, in row order
RecordsOfRows(table) ==
    SelectSeq([k \in DOMAIN table.data |-> NonEmptyFields(table.data[k])],
              LAMBDA record : Len(record) >= 3)

RECURSIVE RecordsByRule(_)
RecordsByRule(tables) ==
    IF tables = <<>> THEN <<>>
    ELSE (IF MachineTableByRule(Head(tables)) THEN RecordsOfRows(Head(tables)) ELSE <<>>)
         \o RecordsByRule(Tail(tables))

MachinesBuilt ==
    /\ pc = "ready"
    /\ ~terraform_data.raised
    /\ DictHas(sheets, "Resources")

\* C19: when the resources sheet holds a machine table (at least 5 columns,
\* at least 1 row, header-keyword or data-content signal), the machine list
\* is one record per row with at least 3 non-empty fields of the machine
\* tables, in table order then row order, and rows with fewer fields give
\* no record
MachineListFromRows ==
    (MachinesBuilt /\ \E t \in DOMAIN ResourcesTables :
                         MachineTableByRule(ResourcesTables[t]))
        => terraform_data.vm_instances = RecordsByRule(ResourcesTables)

\* the same statement limited to sheets where some row gives a record
MachineListFromQualifyingRows ==
    (MachinesBuilt /\ RecordsByRule(ResourcesTables) # <<>>)
        => terraform_data.vm_instances = RecordsByRule(ResourcesTables)


====
